---------------------------- MODULE Spec2Model ----------------------------
(***************************************************************************)
(* Agent-based diffusion simulation of atjgmj/abm-sim                      *)
(* (backend/model/abm.py, backend/model/network.py, backend/app.py).       *)
(*                                                                         *)
(* Numbers.  The program computes with floats; the model keeps every       *)
(* quantity as an exact integer in a fixed unit:                           *)
(*   traits, urban_rural                      tenths      (0..10)          *)
(*   share, alpha, p_generate, decay          hundredths  (0..100)         *)
(*   interest_level, receptivity, influence,                                *)
(*   current_receptivity, demographic modifier hundredths                  *)
(*   current_openness                         1/10000                      *)
(* and a probability as a record [num, den] of two integers.               *)
(*                                                                         *)
(* Randomness.  np.random.random() returns a float u in [0,1).  The only   *)
(* use the program makes of u is the test u < p, so the model draws u      *)
(* from the two extremes of the interval: "lo" (u = 0.0, below every       *)
(* p > 0) and "hi" (the largest float below 1, below p only when p >= 1).  *)
(* Every outcome of a test u < p is the outcome for one of the two.        *)
(***************************************************************************)
EXTENDS Integers, Sequences, FiniteSets, TLC

(***************************************************************************)
(* Bounds of the model.                                                    *)
(***************************************************************************)
NumAgents == 2      \* nodes of the network, ids 0..NumAgents-1
MaxSteps  == 2      \* the scenario's `steps`

Nodes == 0 .. (NumAgents - 1)

(***************************************************************************)
(* class CustomerState(IntEnum)                                            *)
(***************************************************************************)
UNAWARE       == 0
AWARE         == 1
INTERESTED    == 2
KNOWLEDGEABLE == 3
LIKING        == 4
INTENT        == 5
ADOPTED       == 6

CustomerState == UNAWARE .. ADOPTED

\* class KPICategory(str, Enum), in declaration order
KPICategory == <<"awareness", "interest", "knowledge", "liking", "intent">>

\* STATE_TO_KPI: the dict, as the sequence of its items in insertion order
STATE_TO_KPI ==
    << <<AWARE, "awareness">>, <<INTERESTED, "interest">>,
       <<KNOWLEDGEABLE, "knowledge">>, <<LIKING, "liking">>,
       <<INTENT, "intent">> >>

\* the three channels in the order _process_media_exposure visits them
Channels == <<"sns", "video", "search">>

\* self.last_exposure = -999 set by CustomerAgent.__init__
NeverExposed == -999

(***************************************************************************)
(* Arithmetic helpers                                                      *)
(***************************************************************************)
Min(a, b) == IF a < b THEN a ELSE b
Max(a, b) == IF a > b THEN a ELSE b
Abs(a)    == IF a < 0 THEN -a ELSE a
Clip(x, lo, hi) == Max(lo, Min(x, hi))          \* np.clip

Prob(n, d) == [num |-> n, den |-> d]

\* the values np.random.random() is drawn from: 0.0 and the float below 1.0
Uniform == {"lo", "hi"}

\* np.random.random() < p
RandomLess(u, p) ==
    IF u = "lo" THEN p.num > 0 ELSE p.num >= p.den

(***************************************************************************)
(* CustomerAgent construction: personality, demographics, derived scalars  *)
(***************************************************************************)
\* _generate_personality: rand (in 1/1000) selects the archetype; the four
\* Beta samples o, s, r, m (tenths) are the traits.
generate_personality(rand, o, s, r, m) ==
    [type |-> IF rand < 25 THEN "innovator"
              ELSE IF rand < 160 THEN "early_adopter"
              ELSE IF rand < 500 THEN "early_majority"
              ELSE IF rand < 840 THEN "late_majority"
              ELSE "laggard",
     openness |-> o, social_influence |-> s,
     media_affinity |-> m, risk_tolerance |-> r]

\* _generate_demographics
generate_demographics(age, income, urban, edu) ==
    [age_group |-> age, income_level |-> income,
     urban_rural |-> urban, education_level |-> edu]

\* the probability _determine_influencer_status compares its draw with
\* (ratio in hundredths: prob = ratio * 3.0 or ratio * 0.5)
InfluencerProb(personality, cfg) ==
    IF personality.type \in {"innovator", "early_adopter"}
    THEN Prob(cfg.influencer_ratio * 30, 1000)
    ELSE Prob(cfg.influencer_ratio * 5, 1000)

\* _determine_influencer_status with the bug of not looking at
\* enable_influencers
determine_influencer_status_unchecked(personality, cfg, u) ==
    RandomLess(u, InfluencerProb(personality, cfg))

\* _determine_influencer_status
determine_influencer_status(personality, cfg, u) ==
    IF ~cfg.enable_influencers THEN FALSE
    ELSE RandomLess(u, InfluencerProb(personality, cfg))

\* _calculate_interest_level, in hundredths
calculate_interest_level(p, d) ==
    Clip(6 * p.openness + 4 * p.risk_tolerance
         + 4 * (6 - d.age_group) + 2 * d.education_level, 0, 100)

\* _calculate_receptivity, in hundredths
calculate_receptivity(p, d) ==
    Clip(7 * p.media_affinity + 3 * p.openness + d.urban_rural, 0, 100)

\* _calculate_influence, in hundredths (no clip in the source)
calculate_influence(p, d, is_influencer, cfg) ==
    LET base == 4 * p.social_influence + 6 * d.education_level
                + 6 * d.income_level
    IN  IF is_influencer THEN base * cfg.influence_multiplier ELSE base

\* CustomerAgent.__init__ from the values its draws returned
CustomerAgent(dr, cfg) ==
    LET p   == generate_personality(dr.rand, dr.openness, dr.social_influence,
                                    dr.risk_tolerance, dr.media_affinity)
        d   == generate_demographics(dr.age_group, dr.income_level,
                                     dr.urban_rural, dr.education_level)
        inf == determine_influencer_status(p, cfg, dr.influencer_u)
        rec == calculate_receptivity(p, d)
    IN  [personality    |-> p,
         demographics   |-> d,
         is_influencer  |-> inf,
         interest_level |-> calculate_interest_level(p, d),
         receptivity    |-> rec,
         influence      |-> calculate_influence(p, d, inf, cfg),
         state          |-> UNAWARE,
         days_in_state  |-> 0,
         last_exposure  |-> NeverExposed,
         media_exposures |-> 0,
         wom_received   |-> 0,
         current_openness    |-> p.openness * 1000,
         current_receptivity |-> rec]

(***************************************************************************)
(* The per-step algorithm of CustomerAgent, as functions of the agent `a`  *)
(***************************************************************************)
\* _update_time_varying_attributes
update_time_varying_attributes(a) ==
    LET habituation_factor == 1000 - a.media_exposures
        recency_boost == IF a.last_exposure < 5
                         THEN 2 * (5 - a.last_exposure)
                         ELSE 0
    IN  [a EXCEPT
           !.current_openness = a.personality.openness * Max(500, habituation_factor),
           !.current_receptivity = Min(100, a.receptivity + recency_boost)]

\* advance_state with the bug of moving two levels at once
advance_state_skip(a) ==
    IF a.state < ADOPTED
    THEN [a EXCEPT !.state = Min(ADOPTED, a.state + 2), !.days_in_state = 0]
    ELSE a

\* _advance_state
advance_state(a) ==
    IF a.state < ADOPTED
    THEN [a EXCEPT !.state = a.state + 1, !.days_in_state = 0]
    ELSE a

\* _get_channel_demographic_modifier, in hundredths
get_channel_demographic_modifier(a, channel) ==
    LET d == a.demographics
    IN  CASE channel = "sns" ->
               50 + 3 * (2 * (6 - d.age_group) + d.urban_rural + 2 * d.education_level)
          [] channel = "video" ->
               70 + 6 * (6 - d.age_group) + 4 * d.income_level
          [] channel = "search" ->
               60 + 8 * d.education_level + 6 * d.income_level
          [] OTHER -> 100

\* exposure_prob of one channel: share * 0.1 * demo_modifier
ExposureProb(a, channel, media_mix) ==
    Prob(media_mix[channel].share * get_channel_demographic_modifier(a, channel),
         100000)

\* MediaEffectProb with the bug of reading the channel's share for its alpha
MediaEffectProb_share(a, channel, media_mix) ==
    Prob(media_mix[channel].share * a.current_receptivity * a.current_openness,
         100000000)

\* effect_prob of one channel: alpha * current_receptivity * current_openness
MediaEffectProb(a, channel, media_mix) ==
    Prob(media_mix[channel].alpha * a.current_receptivity * a.current_openness,
         100000000)

\* process_media_exposure with the bug of recomputing the time-varying
\* attributes as soon as the agent is exposed
process_media_exposure_refreshing(a, channel, media_mix, u1, u2) ==
    IF RandomLess(u1, ExposureProb(a, channel, media_mix))
    THEN LET exposed == update_time_varying_attributes(
                            [a EXCEPT !.media_exposures = a.media_exposures + 1,
                                      !.last_exposure = 0])
         IN  IF RandomLess(u2, MediaEffectProb(exposed, channel, media_mix))
             THEN advance_state(exposed)
             ELSE exposed
    ELSE a

\* process_media_exposure with the bug of counting an exposure only when it
\* has an effect
process_media_exposure_effective(a, channel, media_mix, u1, u2) ==
    IF /\ RandomLess(u1, ExposureProb(a, channel, media_mix))
       /\ RandomLess(u2, MediaEffectProb(a, channel, media_mix))
    THEN advance_state([a EXCEPT !.media_exposures = a.media_exposures + 1,
                                 !.last_exposure = 0])
    ELSE a

\* one iteration of the loop of _process_media_exposure; u1 is the exposure
\* draw, u2 the effect draw (made only after a successful exposure)
process_media_exposure(a, channel, media_mix, u1, u2) ==
    IF RandomLess(u1, ExposureProb(a, channel, media_mix))
    THEN LET exposed == [a EXCEPT !.media_exposures = a.media_exposures + 1,
                                  !.last_exposure = 0]
         IN  IF RandomLess(u2, MediaEffectProb(a, channel, media_mix))
             THEN advance_state(exposed)
             ELSE exposed
    ELSE a

\* the draws one iteration of the media loop takes from np.random
MediaDraws(a, channel, media_mix, u1, u2) ==
    IF RandomLess(u1, ExposureProb(a, channel, media_mix)) THEN <<u1, u2>> ELSE <<u1>>

\* _calculate_similarity_bonus, in 1/4000
calculate_similarity_bonus(a, neighbor) ==
    LET age_diff    == Abs(a.demographics.age_group - neighbor.demographics.age_group)
        income_diff == Abs(a.demographics.income_level - neighbor.demographics.income_level)
        urban_diff  == Abs(a.demographics.urban_rural - neighbor.demographics.urban_rural)
        age_similarity    == Max(0, 10 * (4 - age_diff))       \* 1/40
        income_similarity == Max(0, 10 * (4 - income_diff))    \* 1/40
        urban_similarity  == Max(0, 4 * (10 - urban_diff))     \* 1/40
        similarity == 4 * age_similarity + 3 * income_similarity
                      + 3 * urban_similarity                   \* 1/400
    IN  3 * similarity

\* wom_prob: p_generate * neighbor.influence * 0.1 * (1 + similarity_bonus)
WomProb(a, neighbor, wom_config) ==
    Prob(wom_config.p_generate * neighbor.influence
           * (4000 + calculate_similarity_bonus(a, neighbor)),
         400000000)

\* effect_prob of word-of-mouth: 0.05 * current_receptivity * social_influence
\* * (2.0 if neighbor.is_influencer else 1.0)
WomEffectProb(a, neighbor) ==
    Prob(5 * a.current_receptivity * a.personality.social_influence
           * (IF neighbor.is_influencer THEN 2 ELSE 1),
         100000)

\* NeighborState with the bug of reading the state the neighbour had when the
\* step began
NeighborState_stale(agents, prev_state, neighbor_id) == prev_state[neighbor_id]

\* the funnel state of the neighbour that _process_word_of_mouth compares
\* with LIKING: the neighbour's state now (agents_dict holds the live agents)
NeighborState(agents, prev_state, neighbor_id) == agents[neighbor_id].state

\* process_word_of_mouth with the bug of not testing the neighbour's state
process_word_of_mouth_any_state(a, neighbor, seen, wom_config, u1, u2) ==
    IF RandomLess(u1, WomProb(a, neighbor, wom_config))
    THEN LET received == [a EXCEPT !.wom_received = a.wom_received + 1]
         IN  IF RandomLess(u2, WomEffectProb(a, neighbor))
             THEN advance_state(received)
             ELSE received
    ELSE a

\* one iteration of the loop of _process_word_of_mouth on a neighbour whose
\* funnel state is read as `seen`
process_word_of_mouth(a, neighbor, seen, wom_config, u1, u2) ==
    IF seen >= LIKING
    THEN IF RandomLess(u1, WomProb(a, neighbor, wom_config))
         THEN LET received == [a EXCEPT !.wom_received = a.wom_received + 1]
              IN  IF RandomLess(u2, WomEffectProb(a, neighbor))
                  THEN advance_state(received)
                  ELSE received
         ELSE a
    ELSE a

WomDraws(a, neighbor, seen, wom_config, u1, u2) ==
    IF seen >= LIKING
    THEN IF RandomLess(u1, WomProb(a, neighbor, wom_config)) THEN <<u1, u2>> ELSE <<u1>>
    ELSE << >>

\* forget_prob with the bug of leaving out the decay factor
ForgetProb_without_decay(a, wom_config) ==
    Prob((10 + a.days_in_state) * 100, 100000)

\* forget_prob: 0.01 * (1 + days_in_state * 0.1) * decay
ForgetProb(a, wom_config) ==
    Prob((10 + a.days_in_state) * wom_config.decay, 100000)

\* process_forgetting with the bug of dropping the `state > UNAWARE` guard
\* and the max()
process_forgetting_unguarded(a, wom_config, u) ==
    IF RandomLess(u, ForgetProb(a, wom_config))
    THEN [a EXCEPT !.state = a.state - 1, !.days_in_state = 0]
    ELSE a

\* process_forgetting with the bug of forgetting everything at once
process_forgetting_reset(a, wom_config, u) ==
    IF RandomLess(u, ForgetProb(a, wom_config)) /\ a.state > UNAWARE
    THEN [a EXCEPT !.state = UNAWARE, !.days_in_state = 0]
    ELSE a

\* process_forgetting with the bug of resetting days_in_state of an UNAWARE
\* agent too
process_forgetting_every_agent(a, wom_config, u) ==
    IF RandomLess(u, ForgetProb(a, wom_config))
    THEN [a EXCEPT !.state = Max(UNAWARE, a.state - 1), !.days_in_state = 0]
    ELSE a

\* process_forgetting with the bug of keeping days_in_state
process_forgetting_same_days(a, wom_config, u) ==
    IF RandomLess(u, ForgetProb(a, wom_config)) /\ a.state > UNAWARE
    THEN [a EXCEPT !.state = Max(UNAWARE, a.state - 1)]
    ELSE a

\* _process_forgetting
process_forgetting(a, wom_config, u) ==
    IF RandomLess(u, ForgetProb(a, wom_config)) /\ a.state > UNAWARE
    THEN [a EXCEPT !.state = Max(UNAWARE, a.state - 1), !.days_in_state = 0]
    ELSE a

\* progress_prob: interest_level * 0.02
ProgressProb(a) == Prob(2 * a.interest_level, 10000)

\* update_state with the bug of stepping the wrong way
update_state_regress(a, u) ==
    IF a.state \in {AWARE, INTERESTED}
    THEN IF RandomLess(u, ProgressProb(a))
         THEN [a EXCEPT !.state = a.state - 1, !.days_in_state = 0]
         ELSE a
    ELSE a

\* update_state with the bug of progressing from every state
update_state_every_state(a, u) ==
    IF RandomLess(u, ProgressProb(a)) THEN advance_state(a) ELSE a

\* _update_state
update_state(a, u) ==
    IF a.state \in {AWARE, INTERESTED}
    THEN IF RandomLess(u, ProgressProb(a)) THEN advance_state(a) ELSE a
    ELSE a

UpdateDraws(a, u) == IF a.state \in {AWARE, INTERESTED} THEN <<u>> ELSE << >>

(***************************************************************************)
(* Scenarios, networks and populations the runs are started with           *)
(***************************************************************************)
MediaChannel(share, alpha) == [share |-> share, alpha |-> alpha]

MediaMix(shares, alphas) ==
    [sns    |-> MediaChannel(shares[1], alphas[1]),
     video  |-> MediaChannel(shares[2], alphas[2]),
     search |-> MediaChannel(shares[3], alphas[3])]

WordOfMouthConfig(p_generate, decay) == [p_generate |-> p_generate, decay |-> decay]

InfluencerConfig(enable, ratio, multiplier) ==
    [enable_influencers |-> enable, influencer_ratio |-> ratio,
     influence_multiplier |-> multiplier]

ScenarioRequest(media_mix, wom, influencers, steps, seed) ==
    [media_mix |-> media_mix, wom |-> wom, influencers |-> influencers,
     steps |-> steps, seed |-> seed]

\* schemas.py defaults: MediaMix, WordOfMouthConfig, InfluencerConfig, seed
DefaultMediaMix    == MediaMix(<<50, 30, 20>>, <<3, 2, 1>>)
DefaultWom         == WordOfMouthConfig(8, 90)
DefaultInfluencers == InfluencerConfig(TRUE, 2, 3)
DefaultSeed        == 42

\* a single channel (sns) with the default alphas
SnsOnly == MediaMix(<<100, 0, 0>>, <<3, 2, 1>>)

\* the scenarios the runs are started with: the schema's defaults; a single
\* channel without decay, and without word-of-mouth generation; and two with
\* every alpha and p_generate 0
Scenarios ==
    { ScenarioRequest(DefaultMediaMix, DefaultWom,
                      DefaultInfluencers, MaxSteps, DefaultSeed),
      ScenarioRequest(SnsOnly, WordOfMouthConfig(8, 0),
                      DefaultInfluencers, MaxSteps, DefaultSeed),
      ScenarioRequest(SnsOnly, WordOfMouthConfig(0, 90),
                      DefaultInfluencers, MaxSteps, DefaultSeed),
      ScenarioRequest(MediaMix(<<50, 30, 20>>, <<0, 0, 0>>), WordOfMouthConfig(0, 90),
                      DefaultInfluencers, MaxSteps, DefaultSeed),
      ScenarioRequest(MediaMix(<<100, 0, 0>>, <<0, 0, 0>>), WordOfMouthConfig(0, 0),
                      DefaultInfluencers, MaxSteps, DefaultSeed) }

\* the values the draws of CustomerAgent.__init__ returned: an innovator who
\* passes the influencer draw, and a laggard who does not
AgentDraws ==
    { [rand |-> 10, openness |-> 8, social_influence |-> 2, risk_tolerance |-> 7,
       media_affinity |-> 5, age_group |-> 2, income_level |-> 4,
       urban_rural |-> 8, education_level |-> 4, influencer_u |-> "lo"],
      [rand |-> 900, openness |-> 2, social_influence |-> 8, risk_tolerance |-> 2,
       media_affinity |-> 5, age_group |-> 4, income_level |-> 2,
       urban_rural |-> 3, education_level |-> 2, influencer_u |-> "hi"] }

\* the population: even nodes draw the first, odd nodes the second
PopulationDraws ==
    [n \in Nodes |-> CHOOSE d \in AgentDraws : (d.rand < 25) <=> (n % 2 = 0)]

\* undirected graphs on Nodes: sets of two-element sets of nodes
Edges == { e \in SUBSET Nodes : Cardinality(e) = 2 }
Topologies == SUBSET Edges

\* the networks a scenario is run on: the default scenario on the complete
\* graph, every other scenario on every graph
NetworksOf(scn) ==
    IF scn.media_mix = DefaultMediaMix /\ scn.wom = DefaultWom
    THEN { Edges }
    ELSE Topologies

RECURSIVE SortedSeq(_)
SortedSeq(S) ==
    IF S = {} THEN << >>
    ELSE LET lo == CHOOSE x \in S : \A y \in S : x <= y
         IN  <<lo>> \o SortedSeq(S \ {lo})

\* list(network.neighbors(unique_id))
neighbors(graph, id) == SortedSeq({ n \in Nodes : {id, n} \in graph })

\* the orders RandomActivation's shuffle can put the agents in
ShuffledOrders(S) ==
    { q \in [1 .. Cardinality(S) -> S] :
        \A i, j \in 1 .. Cardinality(S) : q[i] = q[j] => i = j }

(***************************************************************************)
(* State                                                                   *)
(***************************************************************************)
VARIABLES
    scenario,     \* the ScenarioRequest being run
    network,      \* the graph generate_network returned
    model,        \* model[r]: the CommunicationModel of run r
    np_random,    \* the draws of numpy's generator one of two equally seeded
                  \* runs has taken and the other has not yet
    mesa_random,  \* the orders a seeded model.random produced, by step
    app,          \* app[r]: the run_simulation task of run r and its row in
                  \* the store
    call,         \* a direct call of a function of the engine: its arguments
                  \* and what it gave
    executor      \* the ThreadPoolExecutor: whose model.run was handed to a
                  \* worker, whose waits for one, and the workers that
                  \* other requests hold

vars == <<scenario, network, model, np_random, mesa_random, app, call, executor>>

\* two runs of the same scenario are modelled side by side; run 2 exists only
\* where two runs are compared
RunIds == {1, 2}
Other(r) == 3 - r

Seeded(v) == [seeded |-> TRUE, value |-> v]
Unseeded  == [seeded |-> FALSE, value |-> 0]

\* rep_seed = scenario.seed + rep if scenario.seed else None
rep_seed(scn, rep) == IF scn.seed # 0 THEN Seeded(scn.seed + rep) ELSE Unseeded

NoRead == [reader |-> -1, neighbor |-> -1, seen |-> -1, generated |-> FALSE]

\* make_kpi_collector with the bug of counting `>` for `>=`
make_kpi_collector_strict(kpi, agents) ==
    LET found == { i \in 1 .. Len(STATE_TO_KPI) : STATE_TO_KPI[i][2] = kpi }
    IN  IF found = {} THEN 0
        ELSE LET first == CHOOSE i \in found : \A j \in found : i <= j
                 state == STATE_TO_KPI[first][1]
             IN  Cardinality({ n \in DOMAIN agents : agents[n].state > state })

\* _make_kpi_collector with the bug of counting only the agents exactly at
\* the KPI's state
make_kpi_collector_exact(kpi, agents) ==
    LET found == { i \in 1 .. Len(STATE_TO_KPI) : STATE_TO_KPI[i][2] = kpi }
    IN  IF found = {} THEN 0
        ELSE LET first == CHOOSE i \in found : \A j \in found : i <= j
                 state == STATE_TO_KPI[first][1]
             IN  Cardinality({ n \in DOMAIN agents : agents[n].state = state })

\* the collector _make_kpi_collector builds for `kpi`, applied to the agents
make_kpi_collector(kpi, agents) ==
    LET found == { i \in 1 .. Len(STATE_TO_KPI) : STATE_TO_KPI[i][2] = kpi }
    IN  IF found = {} THEN 0
        ELSE LET first == CHOOSE i \in found : \A j \in found : i <= j
                 state == STATE_TO_KPI[first][1]
             IN  Cardinality({ n \in DOMAIN agents : agents[n].state >= state })

KpiNames == { KPICategory[i] : i \in 1 .. Len(KPICategory) }

\* datacollector.collect(model): one row of the model reporters
collect(current_step, agents) ==
    [k \in KpiNames \cup {"Day"} |->
        IF k = "Day" THEN current_step ELSE make_kpi_collector(k, agents)]

\* CommunicationModel.__init__ with the bug of building agents that have a
\* past: already AWARE for a day and exposed once
CommunicationModel_stale(graph, scn, seed, draws) ==
    LET agents == [n \in Nodes |->
                      [CustomerAgent(draws[n], scn.influencers)
                          EXCEPT !.state = AWARE, !.days_in_state = 1,
                                 !.media_exposures = 1]]
    IN  [agents        |-> agents,
         seed          |-> seed,
         steps         |-> scn.steps,
         current_step  |-> 0,
         queue         |-> << >>,      \* agents the scheduler has still to activate
         pc            |-> "idle",     \* where the run is
         idx           |-> 1,          \* position in the channel / neighbour loop
         datacollector |-> << collect(0, agents) >>,
         \* history, not read by the program:
         activated     |-> [n \in Nodes |-> 0],   \* activations in this step
         substeps      |-> << >>,                 \* sub-steps of this activation
         prev_state    |-> [n \in Nodes |-> agents[n].state],  \* states when
                                                   \* this step began
         last_draws    |-> << >>,       \* the draws the last action took
         wom_read      |-> NoRead]      \* the last neighbour state read

\* CommunicationModel.__init__ with the bug of leaving out the initial collect
CommunicationModel_uncollected(graph, scn, seed, draws) ==
    LET agents == [n \in Nodes |-> CustomerAgent(draws[n], scn.influencers)]
    IN  [agents        |-> agents,
         seed          |-> seed,
         steps         |-> scn.steps,
         current_step  |-> 0,
         queue         |-> << >>,
         pc            |-> "idle",
         idx           |-> 1,
         datacollector |-> << >>,
         activated     |-> [n \in Nodes |-> 0],
         substeps      |-> << >>,
         prev_state    |-> [n \in Nodes |-> agents[n].state],
         last_draws    |-> << >>,
         wom_read      |-> NoRead]

\* CommunicationModel.__init__: one agent per node, the initial collect
CommunicationModel(graph, scn, seed, draws) ==
    LET agents == [n \in Nodes |-> CustomerAgent(draws[n], scn.influencers)]
    IN  [agents        |-> agents,
         seed          |-> seed,
         steps         |-> scn.steps,
         current_step  |-> 0,
         queue         |-> << >>,      \* agents the scheduler has still to activate
         pc            |-> "idle",     \* where the run is
         idx           |-> 1,          \* position in the channel / neighbour loop
         datacollector |-> << collect(0, agents) >>,
         \* history, not read by the program:
         activated     |-> [n \in Nodes |-> 0],   \* activations in this step
         substeps      |-> << >>,                 \* sub-steps of this activation
         prev_state    |-> [n \in Nodes |-> agents[n].state],  \* states when
                                                   \* this step began
         last_draws    |-> << >>,       \* the draws the last action took
         wom_read      |-> NoRead]      \* the last neighbour state read

\* numpy's module-level generator when the process starts
NpInitial ==
    [lead |-> 1, ahead |-> << >>, seed |-> Unseeded, calls |-> 0,
     drawn |-> [r \in RunIds |-> 0]]

\* no direct call is being made
NoCall == [fn |-> "none", args |-> << >>, returned |-> FALSE, result |-> << >>]

\* executor = ThreadPoolExecutor(max_workers=2)
max_workers == 2

\* the pool when `others` of its workers run the work of other requests
ThreadPoolExecutor(others) == [running |-> {}, waiting |-> {}, others |-> others]

\* a run nobody asked for
NoRun ==
    [status |-> "none", pc |-> "none", rep |-> 0, all_results |-> << >>,
     results |-> << >>, built |-> FALSE,
     progress |-> 0, results_path |-> FALSE,
     writes |-> << >>]      \* history: the row of the run after each write

Finished(m) == m.pc = "off" \/ (m.pc = "idle" /\ m.current_step = m.steps)

\* a run with status "none" has no run_simulation task: its model is stepped
\* directly
Orchestrated == app[1].status # "none"

Paired == ~Orchestrated /\ model[2].pc # "off"

\* which of two compared runs moves next: the one behind in the stream of
\* draws, and run 1 when they are level
Turn(r) ==
    IF ~Paired THEN TRUE
    ELSE IF Finished(model[Other(r)]) THEN TRUE
    ELSE IF np_random.ahead # << >> THEN np_random.lead # r
    ELSE r = 1

\* the draws `used` agree with what an equally seeded generator already gave
NpDraws(r, used) ==
    IF ~Paired THEN TRUE
    ELSE IF np_random.lead = r THEN TRUE
    ELSE \A i \in 1 .. Min(Len(used), Len(np_random.ahead)) :
            used[i] = np_random.ahead[i]

\* numpy's generator after run r took the draws `used`.  Under run_simulation
\* the generator is the one module-level generator of the process: `calls`
\* counts the calls made on it since it was last seeded with `seed`, and
\* drawn[r] the calls run r made since run r last seeded it.
NpAfter(r, used) ==
    LET ahead == np_random.ahead
        next  == IF np_random.lead = r \/ ahead = << >>
                 THEN [lead |-> r, ahead |-> ahead \o used]
                 ELSE IF Len(used) <= Len(ahead)
                 THEN [lead |-> np_random.lead,
                       ahead |-> SubSeq(ahead, Len(used) + 1, Len(ahead))]
                 ELSE [lead |-> r, ahead |-> SubSeq(used, Len(ahead) + 1, Len(used))]
        pair  == IF ~Paired \/ Finished(model[Other(r)]) \/ next.ahead = << >>
                 THEN [lead |-> 1, ahead |-> << >>]
                 ELSE next
    IN  IF Orchestrated
        THEN [np_random EXCEPT !.calls = @ + Len(used),
                               !.drawn[r] = @ + Len(used)]
        ELSE [np_random EXCEPT !.lead = pair.lead, !.ahead = pair.ahead]

\* RandomActivation.step: the order model.random.shuffle leaves the agents in
ShuffleOf(r) ==
    LET m == model[r]
        t == m.current_step + 1
    IN  IF Paired /\ m.seed.seeded /\ model[Other(r)].seed = m.seed
           /\ t <= Len(mesa_random)
        THEN { mesa_random[t] }
        ELSE ShuffledOrders(Nodes)

MesaAfter(r, order) ==
    LET m == model[r]
    IN  IF Paired /\ m.seed.seeded /\ model[Other(r)].seed = m.seed
           /\ m.current_step + 1 > Len(mesa_random)
        THEN Append(mesa_random, order)
        ELSE mesa_random

(***************************************************************************)
(* Actions.  The agent being activated is the head of the queue.           *)
(***************************************************************************)
Current(m) == Head(m.queue)

\* step_body with the bug of leaving out the call of _process_forgetting
step_body_skip(name) ==
    CASE name = "days"   -> "traits"
      [] name = "traits" -> "media"
      [] name = "media"  -> "wom"
      [] name = "wom"    -> "update"
      [] name = "forget" -> "update"

\* the body of CustomerAgent.step: the call that follows the call `name`
step_body(name) ==
    CASE name = "days"   -> "traits"
      [] name = "traits" -> "media"
      [] name = "media"  -> "wom"
      [] name = "wom"    -> "forget"
      [] name = "forget" -> "update"

\* the log of sub-steps: a sub-step is logged when it is entered
Entered(m, name) == IF m.idx = 1 THEN Append(m.substeps, name) ELSE m.substeps

\* CommunicationModel.step, first half: current_step += 1, and the scheduler
\* shuffles the agents (one pass of the loop of run())
ModelStep(r) ==
    LET m == model[r]
    IN  /\ Turn(r)
        /\ m.pc = "idle"
        /\ m.current_step < m.steps
        /\ \E order \in ShuffleOf(r) :
             /\ model' = [model EXCEPT ![r] =
                   [m EXCEPT !.current_step = m.current_step + 1,
                             !.queue = order,
                             !.pc = "days",
                             !.activated = [n \in Nodes |-> 0],
                             !.substeps = << >>,
                             !.last_draws = << >>,
                             !.prev_state = [n \in Nodes |-> m.agents[n].state]]]
             /\ mesa_random' = MesaAfter(r, order)
        /\ UNCHANGED <<call, app, scenario, network, np_random, executor>>

\* CustomerAgent.step: self.days_in_state += 1
IncrementDays(r) ==
    LET m == model[r]
        id == Current(m)
    IN  /\ Turn(r)
        /\ m.pc = "days"
        /\ model' = [model EXCEPT ![r] =
              [m EXCEPT !.agents[id].days_in_state = m.agents[id].days_in_state + 1,
                        !.substeps = <<"days">>,
                        !.last_draws = << >>,
                        !.pc = step_body("days")]]
        /\ UNCHANGED <<call, app, scenario, network, np_random, mesa_random, executor>>

\* CustomerAgent.step: self._update_time_varying_attributes()
UpdateTimeVarying(r) ==
    LET m == model[r]
        id == Current(m)
    IN  /\ Turn(r)
        /\ m.pc = "traits"
        /\ model' = [model EXCEPT ![r] =
              [m EXCEPT !.agents[id] = update_time_varying_attributes(m.agents[id]),
                        !.substeps = Append(m.substeps, "traits"),
                        !.last_draws = << >>,
                        !.pc = step_body("traits"),
                        !.idx = 1]]
        /\ UNCHANGED <<call, app, scenario, network, np_random, mesa_random, executor>>

\* CustomerAgent.step: self._process_media_exposure(), one channel per action
MediaExposure(r) ==
    LET m == model[r]
        id == Current(m)
        channel == Channels[m.idx]
    IN  /\ Turn(r)
        /\ m.pc = "media"
        /\ \E u1, u2 \in Uniform :
             /\ NpDraws(r, MediaDraws(m.agents[id], channel, scenario.media_mix, u1, u2))
             /\ model' = [model EXCEPT ![r] =
                   [m EXCEPT !.agents[id] = process_media_exposure(
                                 m.agents[id], channel, scenario.media_mix, u1, u2),
                             !.substeps = Entered(m, "media"),
                             !.last_draws = MediaDraws(m.agents[id], channel,
                                                       scenario.media_mix, u1, u2),
                             !.pc = IF m.idx = Len(Channels)
                                    THEN step_body("media") ELSE "media",
                             !.idx = IF m.idx = Len(Channels) THEN 1 ELSE m.idx + 1]]
             /\ np_random' = NpAfter(r, MediaDraws(m.agents[id], channel,
                                                   scenario.media_mix, u1, u2))
        /\ UNCHANGED <<call, app, scenario, network, mesa_random, executor>>

\* network_after_neighbors with the bug of taking the neighbours off the graph
network_after_neighbors_popped(graph, id) == { e \in graph : id \notin e }

\* the graph after list(self.model.network.neighbors(self.unique_id)): the
\* neighbours are copied into a list and the graph is left as it was
network_after_neighbors(graph, id) == graph

\* CustomerAgent.step: self._process_word_of_mouth(), one neighbour per action;
\* past the last neighbour the loop ends
WordOfMouth(r) ==
    LET m == model[r]
        id == Current(m)
        nbrs == neighbors(network, id)
    IN  /\ Turn(r)
        /\ m.pc = "wom"
        /\ IF m.idx > Len(nbrs)
           THEN /\ model' = [model EXCEPT ![r] =
                      [m EXCEPT !.substeps = Entered(m, "wom"),
                                !.wom_read = NoRead,
                                !.last_draws = << >>,
                                !.pc = step_body("wom"),
                                !.idx = 1]]
                /\ UNCHANGED np_random
           ELSE LET neighbor_id == nbrs[m.idx]
                    neighbor == m.agents[neighbor_id]
                    seen == NeighborState(m.agents, m.prev_state, neighbor_id)
                IN  \E u1, u2 \in Uniform :
                      LET used  == WomDraws(m.agents[id], neighbor, seen,
                                            scenario.wom, u1, u2)
                          after == process_word_of_mouth(m.agents[id], neighbor, seen,
                                                         scenario.wom, u1, u2)
                      IN  /\ NpDraws(r, used)
                          /\ model' = [model EXCEPT ![r] =
                                [m EXCEPT !.agents[id] = after,
                                          !.substeps = Entered(m, "wom"),
                                          !.last_draws = used,
                                          !.wom_read =
                                              [reader |-> id, neighbor |-> neighbor_id,
                                               seen |-> seen,
                                               generated |-> after.wom_received
                                                   > m.agents[id].wom_received],
                                          !.idx = m.idx + 1]]
                          /\ np_random' = NpAfter(r, used)
        /\ network' = network_after_neighbors(network, id)
        /\ UNCHANGED <<call, app, scenario, mesa_random, executor>>

\* CustomerAgent.step: self._process_forgetting()
Forgetting(r) ==
    LET m == model[r]
        id == Current(m)
    IN  /\ Turn(r)
        /\ m.pc = "forget"
        /\ \E u \in Uniform :
             /\ NpDraws(r, <<u>>)
             /\ model' = [model EXCEPT ![r] =
                   [m EXCEPT !.agents[id] = process_forgetting(m.agents[id],
                                                               scenario.wom, u),
                             !.substeps = Append(m.substeps, "forget"),
                             !.last_draws = <<u>>,
                             !.pc = step_body("forget")]]
             /\ np_random' = NpAfter(r, <<u>>)
        /\ UNCHANGED <<call, app, scenario, network, mesa_random, executor>>

\* AfterActivation with the bug of ending the step after the first agent
AfterActivation_first(queue) == "collect"

\* where the scheduler goes when an agent's step() returns: the next agent of
\* the shuffled list, or back to CommunicationModel.step after the last one
AfterActivation(queue) == IF Tail(queue) = << >> THEN "collect" ELSE "days"

\* CustomerAgent.step: self._update_state(); the activation ends
UpdateState(r) ==
    LET m == model[r]
        id == Current(m)
    IN  /\ Turn(r)
        /\ m.pc = "update"
        /\ \E u \in Uniform :
             /\ NpDraws(r, UpdateDraws(m.agents[id], u))
             /\ model' = [model EXCEPT ![r] =
                   [m EXCEPT !.agents[id] = update_state(m.agents[id], u),
                             !.substeps = Append(m.substeps, "update"),
                             !.last_draws = UpdateDraws(m.agents[id], u),
                             !.activated[id] = m.activated[id] + 1,
                             !.queue = Tail(m.queue),
                             !.pc = AfterActivation(m.queue)]]
             /\ np_random' = NpAfter(r, UpdateDraws(m.agents[id], u))
        /\ UNCHANGED <<call, app, scenario, network, mesa_random, executor>>

\* CommunicationModel.step, second half: self.datacollector.collect(self)
Collect(r) ==
    LET m == model[r]
    IN  /\ Turn(r)
        /\ m.pc = "collect"
        /\ model' = [model EXCEPT ![r] =
              [m EXCEPT !.datacollector =
                            Append(m.datacollector, collect(m.current_step, m.agents)),
                        !.last_draws = << >>,
                        !.pc = "idle"]]
        /\ UNCHANGED <<call, app, scenario, network, np_random, mesa_random, executor>>

Step(r) ==
    \/ ModelStep(r)
    \/ IncrementDays(r)
    \/ UpdateTimeVarying(r)
    \/ MediaExposure(r)
    \/ WordOfMouth(r)
    \/ Forgetting(r)
    \/ UpdateState(r)
    \/ Collect(r)

Next == \E r \in RunIds : Step(r)

(***************************************************************************)
(* Spec: one run (repetition 0) of one scenario on one network             *)
(***************************************************************************)
Init ==
    /\ scenario \in Scenarios
    /\ network \in NetworksOf(scenario)
    /\ LET m == CommunicationModel(network, scenario, rep_seed(scenario, 0),
                                   PopulationDraws)
       IN  model = [r \in RunIds |-> IF r = 1 THEN m ELSE [m EXCEPT !.pc = "off"]]
    /\ np_random = NpInitial
    /\ mesa_random = << >>
    /\ app = [r \in RunIds |-> NoRun]
    /\ call = NoCall
    /\ executor = ThreadPoolExecutor(0)

Spec == Init /\ [][Next]_vars

(***************************************************************************)
(* SpecDet: the same scenario run twice with the same seed, side by side.  *)
(* numpy's generator is seeded before the agents are built in both runs    *)
(* (generate_network seeds it with scenario.seed, the model with rep_seed  *)
(* when that is not None), so both runs build the same population and read *)
(* the same stream of draws; model.random is seeded with rep_seed.         *)
(***************************************************************************)
Seeds == {0, DefaultSeed}

DetScenarios ==
    { ScenarioRequest(SnsOnly, WordOfMouthConfig(0, 90),
                      DefaultInfluencers, MaxSteps, seed) : seed \in Seeds }

InitDet ==
    /\ scenario \in DetScenarios
    /\ network = Edges
    /\ LET m == CommunicationModel(network, scenario, rep_seed(scenario, 0),
                                   PopulationDraws)
       IN  model = [r \in RunIds |-> m]
    /\ np_random = NpInitial
    /\ mesa_random = << >>
    /\ app = [r \in RunIds |-> NoRun]
    /\ call = NoCall
    /\ executor = ThreadPoolExecutor(0)

SpecDet == InitDet /\ [][Next]_vars

(***************************************************************************)
(* run_simulation: the background task of POST /api/run.  The task runs on *)
(* the event loop up to its `await`; model.run runs in a thread of the     *)
(* executor, concurrently with the event loop and with the other thread.   *)
(***************************************************************************)
\* class RunStatus(str, Enum)
RunStatus == {"queued", "running", "done", "error"}

\* the columns of the run's row that the requests read
Row(a) == [status |-> a.status, progress |-> a.progress,
           results_path |-> a.results_path]

\* store.update_run_status (progress in hundredths)
update_run_status(a, status, progress) ==
    LET row == [a EXCEPT !.status = status, !.progress = progress]
    IN  [row EXCEPT !.writes = Append(a.writes, Row(row))]

\* json.dump(results, f, default=str): the DataFrame is written as its text
json_dump(results) ==
    [series |-> results.series, summary |-> results.summary, model_data |-> "str"]

\* store.save_results with the bug of not recording results_path
save_results_unrecorded(a, results) ==
    [a EXCEPT !.results = json_dump(results),
              !.writes = Append(a.writes, Row(a))]

\* store.save_results: the file is written, then results_path is set
save_results(a, results) ==
    LET row == [a EXCEPT !.results = json_dump(results), !.results_path = TRUE]
    IN  [row EXCEPT !.writes = Append(a.writes, Row(row))]

\* store.get_results: None (here << >>) unless results_path is set
get_results(a) == IF a.results_path THEN a.results ELSE << >>

\* progress at the start of a repetition, with the bug of counting down
rep_progress_remaining(rep, reps) == 20 + (70 * (reps - rep)) \div reps

\* progress = 0.2 + (rep / scenario.reps) * 0.7, in hundredths
rep_progress(rep, reps) == 20 + (70 * rep) \div reps

\* store.create_run: the row of a run whose task has not started
Queued ==
    LET row == [NoRun EXCEPT !.status = "queued", !.pc = "start"]
    IN  [row EXCEPT !.writes = << Row(row) >>]

\* the calls CustomerAgent.__init__ makes on numpy's generator: five in
\* _generate_personality, four in _generate_demographics, and one in
\* _determine_influencer_status unless influencers are disabled
ConstructionCalls(cfg) == 5 + 4 + (IF cfg.enable_influencers THEN 1 ELSE 0)

\* np.random.seed(seed) called by run r
NpSeed(np, r, seed) ==
    [np EXCEPT !.seed = seed, !.calls = 0, !.drawn[r] = 0]

\* numpy's generator after CommunicationModel.__init__ of run r: seeded when
\* the seed is not None, then used by every agent's constructor
NpConstructed(np, r, seed, cfg) ==
    LET start == IF seed.seeded THEN NpSeed(np, r, seed) ELSE np
        used  == NumAgents * ConstructionCalls(cfg)
    IN  [start EXCEPT !.calls = @ + used, !.drawn[r] = @ + used]

\* what model.run() returns
\* run(): the time series, one point per KPI for each row of model_data
series(model_data) ==
    [i \in 1 .. Len(model_data) * Len(KPICategory) |->
        LET row == model_data[((i - 1) \div Len(KPICategory)) + 1]
            kpi == KPICategory[((i - 1) % Len(KPICategory)) + 1]
        IN  [day |-> row["Day"], metric |-> kpi, value |-> row[kpi]]]

\* run(): the summary with the bug of reading the end from the first row
summary_of_first_row(model_data) ==
    [kpi \in KpiNames |->
        [start |-> model_data[1][kpi], end |-> model_data[1][kpi], delta |-> 0]]

\* run(): the summary statistics of each KPI's column
summary(model_data) ==
    [kpi \in KpiNames |->
        LET values == [i \in 1 .. Len(model_data) |-> model_data[i][kpi]]
        IN  [start |-> values[1],
             end   |-> values[Len(values)],
             delta |-> values[Len(values)] - values[1]]]

run_results(m) ==
    [series     |-> series(m.datacollector),
     summary    |-> summary(m.datacollector),
     model_data |-> m.datacollector]

\* aggregate_repetitions
aggregate_repetitions(results_list) ==
    IF results_list = << >> THEN << >> ELSE results_list[1]

\* what generate_network returns for the scenario: the same graph for the
\* same arguments; here the graph that makes the agents neighbours
GeneratedBy(scn) == {Edges}

\* model.run of run r has returned (or raised): its loop over the steps ended
RunReturned(r) == model[r].pc = "idle" /\ model[r].current_step = model[r].steps

\* the workers that are not free: a thread keeps its worker until model.run
\* returns, whether or not the task still waits for it
Busy(e) == e.others + Cardinality({ r \in e.running : ~RunReturned(r) })

\* the work item of run r has left the pool: its future is done or cancelled
leave(e, r) == [e EXCEPT !.running = @ \ {r}, !.waiting = @ \ {r}]

\* loop.run_in_executor(executor, model.run), after the run's earlier work
\* item has returned: a free worker takes the item, or the item waits
run_in_executor(e, r) ==
    IF e.others + Cardinality({ q \in e.running \ {r} : ~RunReturned(q) }) < max_workers
    THEN [e EXCEPT !.running = @ \cup {r}, !.waiting = @ \ {r}]
    ELSE [e EXCEPT !.running = @ \ {r}, !.waiting = @ \cup {r}]

\* the except clause of run_simulation, with the bug of not recording the error
run_simulation_except_silent(a) == a

\* the except clause of run_simulation: the run is marked ERROR
run_simulation_except(a) == update_run_status(a, "error", 0)

\* run_simulation from its start to its first await: status RUNNING, the
\* network, the model of repetition 0, and model.run handed to the executor
RunSimulation(r) ==
    LET a    == app[r]
        seed == rep_seed(scenario, 0)
    IN  /\ a.status = "queued"
        /\ \E graph \in GeneratedBy(scenario) :
             /\ network' = graph
             /\ model' = [model EXCEPT ![r] =
                   CommunicationModel(graph, scenario, seed, PopulationDraws)]
        /\ np_random' = NpConstructed(NpSeed(np_random, r, Seeded(scenario.seed)),
                                      r, seed, scenario.influencers)
        /\ app' = [app EXCEPT ![r] =
              LET generating   == update_run_status(a, "running", 10)
                  initializing == update_run_status(generating, "running", 20)
                  repetition   == update_run_status(initializing, "running",
                                                    rep_progress(0, scenario.reps))
              IN  [repetition EXCEPT !.pc = "await", !.rep = 0, !.built = TRUE]]
        /\ executor' = run_in_executor(executor, r)
        /\ UNCHANGED <<call, scenario, mesa_random>>

\* run_simulation resumed when model.run has returned: the results are kept,
\* and either the next repetition starts or the run is saved and DONE
Await(r) ==
    LET a       == app[r]
        results == Append(a.all_results, run_results(model[r]))
        seed    == rep_seed(scenario, a.rep + 1)
    IN  /\ a.pc = "await"
        /\ RunReturned(r)
        /\ IF a.rep + 1 < scenario.reps
           THEN /\ model' = [model EXCEPT ![r] =
                      CommunicationModel(network, scenario, seed, PopulationDraws)]
                /\ np_random' = NpConstructed(np_random, r, seed, scenario.influencers)
                /\ app' = [app EXCEPT ![r] =
                      [update_run_status(a, "running",
                                         rep_progress(a.rep + 1, scenario.reps))
                          EXCEPT !.rep = a.rep + 1, !.all_results = results]]
                /\ executor' = run_in_executor(executor, r)
           ELSE /\ app' = [app EXCEPT ![r] =
                      LET aggregating == update_run_status(a, "running", 95)
                          saved == save_results(aggregating,
                                                aggregate_repetitions(results))
                          done  == update_run_status(saved, "done", 100)
                      IN  [done EXCEPT !.pc = "end", !.all_results = results]]
                /\ executor' = leave(executor, r)
                /\ UNCHANGED <<model, np_random>>
        /\ UNCHANGED <<call, scenario, network, mesa_random>>

\* asyncio.wait_for gives up after 300 seconds: the task raises and the run
\* is marked ERROR.  The thread that runs model.run is not interrupted; a
\* work item that still waits for a worker is cancelled.
Timeout(r) ==
    LET a == app[r]
    IN  /\ a.pc = "await"
        /\ ~RunReturned(r)
        /\ app' = [app EXCEPT ![r] = [run_simulation_except(a) EXCEPT !.pc = "end"]]
        /\ executor' = [executor EXCEPT !.waiting = @ \ {r}]
        /\ UNCHANGED <<call, scenario, network, model, np_random, mesa_random>>

\* a worker runs model.run of run r
Work(r) == r \in executor.running /\ Step(r)

NextApp ==
    \E r \in RunIds :
        \/ RunSimulation(r)
        \/ Work(r)
        \/ Await(r)
        \/ Timeout(r)

\* one step is enough to interleave two runs
AppSteps == 1

AppScenarios ==
    { ScenarioRequest(MediaMix(<<100, 0, 0>>, <<0, 0, 0>>), WordOfMouthConfig(0, 0),
                      DefaultInfluencers, AppSteps, DefaultSeed) @@ [reps |-> 1] }

\* SpecApp: two runs of one scenario have been asked for
InitApp ==
    /\ scenario \in AppScenarios
    /\ network = {}
    /\ model = [r \in RunIds |->
          [CommunicationModel(Edges, scenario, Unseeded, PopulationDraws)
              EXCEPT !.pc = "off"]]
    /\ np_random = NpInitial
    /\ mesa_random = << >>
    /\ app = [r \in RunIds |-> Queued]
    /\ call = NoCall
    /\ executor = ThreadPoolExecutor(0)

SpecApp == InitApp /\ [][NextApp]_vars

\* a media mix whose shares sum to 1.5
OverspentMix == MediaMix(<<50, 50, 50>>, <<3, 2, 1>>)

RunScenarios ==
    { ScenarioRequest(SnsOnly, WordOfMouthConfig(0, 0), DefaultInfluencers,
                      AppSteps, DefaultSeed) @@ [reps |-> 2],
      ScenarioRequest(SnsOnly, WordOfMouthConfig(0, 0), DefaultInfluencers,
                      AppSteps, 0) @@ [reps |-> 2],
      ScenarioRequest(SnsOnly, WordOfMouthConfig(0, 0), InfluencerConfig(FALSE, 2, 3),
                      AppSteps, DefaultSeed) @@ [reps |-> 2],
      ScenarioRequest(SnsOnly, WordOfMouthConfig(0, 0), InfluencerConfig(TRUE, 0, 3),
                      AppSteps, DefaultSeed) @@ [reps |-> 2],
      ScenarioRequest(OverspentMix, WordOfMouthConfig(0, 0), DefaultInfluencers,
                      AppSteps, DefaultSeed) @@ [reps |-> 2] }

\* SpecRun: one run of one scenario, with two repetitions
InitRun ==
    /\ scenario \in RunScenarios
    /\ network = {}
    /\ model = [r \in RunIds |->
          [CommunicationModel(Edges, scenario, Unseeded, PopulationDraws)
              EXCEPT !.pc = "off"]]
    /\ np_random = NpInitial
    /\ mesa_random = << >>
    /\ app = [r \in RunIds |-> IF r = 1 THEN Queued ELSE NoRun]
    /\ call = NoCall
    /\ executor = ThreadPoolExecutor(0)

SpecRun == InitRun /\ [][NextApp]_vars

(***************************************************************************)
(* SpecLive: one run of two repetitions while other requests (other runs,  *)
(* /api/optimize) use the same two workers, under fair scheduling of the   *)
(* event loop and of the worker threads                                    *)
(***************************************************************************)
\* a worker that became free takes the work item of run r from the queue
WorkerStart(r) ==
    /\ r \in executor.waiting
    /\ Busy(executor) < max_workers
    /\ executor' = [executor EXCEPT !.running = @ \cup {r}, !.waiting = @ \ {r}]
    /\ UNCHANGED <<scenario, network, model, np_random, mesa_random, app, call>>

\* the work of another request returns and frees its worker
OtherDone ==
    /\ executor.others > 0
    /\ executor' = [executor EXCEPT !.others = @ - 1]
    /\ UNCHANGED <<scenario, network, model, np_random, mesa_random, app, call>>

\* another request hands work to the executor and a free worker takes it
OtherSubmit ==
    /\ Busy(executor) < max_workers
    /\ executor' = [executor EXCEPT !.others = @ + 1]
    /\ UNCHANGED <<scenario, network, model, np_random, mesa_random, app, call>>

NextLive ==
    \/ NextApp
    \/ \E r \in RunIds : WorkerStart(r)
    \/ OtherDone
    \/ OtherSubmit

LiveScenarios ==
    { ScenarioRequest(MediaMix(<<100, 0, 0>>, <<0, 0, 0>>), WordOfMouthConfig(0, 0),
                      DefaultInfluencers, AppSteps, DefaultSeed) @@ [reps |-> 2] }

InitLive ==
    /\ scenario \in LiveScenarios
    /\ network = {}
    /\ model = [r \in RunIds |->
          [CommunicationModel(Edges, scenario, Unseeded, PopulationDraws)
              EXCEPT !.pc = "off"]]
    /\ np_random = NpInitial
    /\ mesa_random = << >>
    /\ app = [r \in RunIds |-> IF r = 1 THEN Queued ELSE NoRun]
    /\ call = NoCall
    /\ \E others \in 0 .. max_workers : executor = ThreadPoolExecutor(others)

\* the event loop runs every task and callback that is ready, the wait_for
\* timer fires unless model.run returned, and a worker thread that has work
\* goes on with it; the work of other requests need not return
Fairness ==
    \A r \in RunIds :
        /\ WF_vars(RunSimulation(r))
        /\ WF_vars(Await(r))
        /\ WF_vars(Timeout(r))
        /\ WF_vars(Work(r))
        /\ WF_vars(WorkerStart(r))

SpecLive == InitLive /\ [][NextLive]_vars /\ Fairness

(***************************************************************************)
(* generate_network, called directly.  networkx's generators are modelled  *)
(* by what they accept and by the number of edges of what they return.     *)
(***************************************************************************)
NetMaxN == 4
NetMaxK == 5

NetworkType == {"er", "ws", "ba"}

Pairs(n) == { {a, b} : a, b \in 0 .. (n - 1) } \ { {a} : a \in 0 .. (n - 1) }

GraphsWith(n, m) == { g \in SUBSET Pairs(n) : Cardinality(g) = m }

Returned(n, g) == [raised |-> FALSE, error |-> "", nodes |-> n, edges |-> g]
Raised(e)      == [raised |-> TRUE, error |-> e, nodes |-> 0, edges |-> {}]

\* nx.erdos_renyi_graph(n, p) for p = pnum / pden: no edge for p <= 0, every
\* edge for p >= 1, otherwise each pair independently
erdos_renyi_graph(n, pnum, pden) ==
    IF pnum <= 0 THEN { Returned(n, {}) }
    ELSE IF pnum >= pden THEN { Returned(n, Pairs(n)) }
    ELSE { Returned(n, g) : g \in SUBSET Pairs(n) }

\* nx.watts_strogatz_graph(n, k, beta): refuses k > n; for k = n refuses or
\* returns the complete graph, depending on the release; otherwise a ring of
\* n * (k // 2) edges, rewired
watts_strogatz_graph(n, k) ==
    IF k > n THEN { Raised("NetworkXError") }
    ELSE IF k = n THEN { Raised("NetworkXError"), Returned(n, Pairs(n)) }
    ELSE { Returned(n, g) : g \in GraphsWith(n, n * (k \div 2)) }

\* nx.barabasi_albert_graph with the bug of returning only the nodes added
\* after the first m
barabasi_albert_graph_added(n, m) ==
    IF m < 1 \/ m >= n THEN { Raised("NetworkXError") }
    ELSE { Returned(n - m, g) : g \in GraphsWith(n - m, 0) }

\* nx.barabasi_albert_graph(n, m): refuses m < 1 and m >= n; otherwise
\* m * (n - m) edges
barabasi_albert_graph(n, m) ==
    IF m < 1 \/ m >= n THEN { Raised("NetworkXError") }
    ELSE { Returned(n, g) : g \in GraphsWith(n, m * (n - m)) }

\* generate_network, after its np.random.seed(seed): what it can give
generate_network(network_type, n, k) ==
    CASE network_type = "er" ->
            IF n = 1 THEN { Raised("ZeroDivisionError") }
            ELSE erdos_renyi_graph(n, k, n - 1)
      [] network_type = "ws" -> watts_strogatz_graph(n, k)
      [] network_type = "ba" -> barabasi_albert_graph(n, k \div 2)
      [] OTHER -> { Raised("ValueError") }

\* the generator nx's functions draw from with the bug of not being given
\* seed=seed: the global one, wherever it stands
nx_random_state_global(seed) == [seeded |-> FALSE, value |-> 0, calls |-> 0]

\* the generator nx's functions draw from when called with seed=seed: a
\* private one, freshly seeded
nx_random_state(seed) == [seeded |-> TRUE, value |-> seed, calls |-> 0]

\* the state of the global numpy generator: its seed and its position
NpState(np) == [seeded |-> np.seed.seeded, value |-> np.seed.value, calls |-> np.calls]

\* a generator gives what it gave before when it is seeded and in the state
\* it was in at the earlier call
Repeats(c, stream) == c.first.made /\ stream.seeded /\ c.first.stream = stream

\* a direct call generate_network(network_type, n, k, 0.1, seed)
GenerateNetwork ==
    /\ call.fn = "generate_network"
    /\ ~call.returned
    /\ LET stream == nx_random_state(call.args.seed)
       IN  \E result \in generate_network(call.args.network_type, call.args.n,
                                          call.args.k) :
              /\ Repeats(call, stream) => result = call.first.result
              /\ call' = [call EXCEPT !.returned = TRUE, !.result = result,
                                      !.before = NpState(np_random),
                                      !.stream = stream]
    /\ np_random' = [np_random EXCEPT !.seed = Seeded(call.args.seed), !.calls = 0]
    /\ UNCHANGED <<scenario, network, model, mesa_random, app, executor>>

(***************************************************************************)
(* network_to_preview, called directly on a graph [nodes, edges]           *)
(***************************************************************************)
PreviewMaxN == 3
NetMaxCalls == 2

\* np.random.choice(a, size, replace=False): the samples it can give
choice(a, size) == { sampled \in SUBSET a : Cardinality(sampled) = size }

\* graph.subgraph(nodes) with the bug of keeping every edge
subgraph_every_edge(graph, nodes) ==
    [nodes |-> graph.nodes \cap nodes, edges |-> graph.edges]

\* graph.subgraph(nodes)
subgraph(graph, nodes) ==
    [nodes |-> graph.nodes \cap nodes,
     edges |-> { e \in graph.edges : e \subseteq nodes }]

\* network_to_preview, from the sample its np.random.choice returned
network_to_preview(graph, max_nodes, sampled_nodes) ==
    LET sub == IF Cardinality(graph.nodes) > max_nodes
               THEN subgraph(graph, sampled_nodes)
               ELSE graph
    IN  [nodes |-> SortedSeq(sub.nodes), edges |-> sub.edges]

\* a direct call network_to_preview(graph, max_nodes)
NetworkToPreview ==
    /\ call.fn = "network_to_preview"
    /\ ~call.returned
    /\ LET graph     == call.args.graph
           max_nodes == call.args.max_nodes
           sampling  == Cardinality(graph.nodes) > max_nodes
           stream    == NpState(np_random)
       IN  /\ \E sampled_nodes \in (IF sampling THEN choice(graph.nodes, max_nodes)
                                    ELSE { {} }) :
                 LET result == network_to_preview(graph, max_nodes, sampled_nodes)
                 IN  /\ (sampling /\ Repeats(call, stream)) => result = call.first.result
                     /\ call' = [call EXCEPT !.returned = TRUE, !.result = result,
                                             !.before = stream, !.stream = stream]
           /\ np_random' = IF sampling THEN [np_random EXCEPT !.calls = @ + 1]
                           ELSE np_random
    /\ UNCHANGED <<scenario, network, model, mesa_random, app, executor>>

\* the caller makes the same call a second time
CallAgain ==
    /\ call.fn # "none"
    /\ call.returned
    /\ ~call.first.made
    /\ call' = [call EXCEPT !.returned = FALSE,
                            !.first = [made |-> TRUE, result |-> call.result,
                                       before |-> call.before,
                                       stream |-> call.stream]]
    /\ UNCHANGED <<scenario, network, model, np_random, mesa_random, app, executor>>

\* other code uses the global generator before a call: a draw, or
\* np.random.seed(seed) of a model under construction
OtherCode ==
    /\ call.fn # "none"
    /\ ~call.returned
    /\ \/ /\ np_random.calls < NetMaxCalls
          /\ np_random' = [np_random EXCEPT !.calls = @ + 1]
       \/ /\ NpState(np_random) # NpState([np_random EXCEPT !.seed = Seeded(DefaultSeed),
                                                            !.calls = 0])
          /\ np_random' = [np_random EXCEPT !.seed = Seeded(DefaultSeed), !.calls = 0]
    /\ UNCHANGED <<scenario, network, model, mesa_random, app, call, executor>>

NextNet ==
    \/ GenerateNetwork
    \/ NetworkToPreview
    \/ CallAgain
    \/ OtherCode

NoEarlierCall ==
    [made |-> FALSE, result |-> << >>, before |-> NpState(NpInitial),
     stream |-> NpState(NpInitial)]

\* the calls made: generate_network with every kind, n and k, and
\* network_to_preview with every graph of up to PreviewMaxN nodes and every cap
DirectCalls ==
    { [fn |-> "generate_network",
       args |-> [network_type |-> network_type, n |-> n, k |-> k,
                 seed |-> DefaultSeed],
       returned |-> FALSE, result |-> Raised(""),
       before |-> NpState(NpInitial), stream |-> NpState(NpInitial),
       first |-> NoEarlierCall] :
         network_type \in NetworkType, n \in 1 .. NetMaxN, k \in 0 .. NetMaxK }
    \cup
    UNION { { [fn |-> "network_to_preview",
               args |-> [graph |-> [nodes |-> 0 .. (n - 1), edges |-> g],
                         max_nodes |-> max_nodes],
               returned |-> FALSE, result |-> << >>,
               before |-> NpState(NpInitial), stream |-> NpState(NpInitial),
               first |-> NoEarlierCall] :
                 g \in SUBSET Pairs(n), max_nodes \in 0 .. (n + 1) } :
            n \in 0 .. PreviewMaxN }

InitNet ==
    /\ scenario = ScenarioRequest(DefaultMediaMix, DefaultWom, DefaultInfluencers,
                                  MaxSteps, DefaultSeed)
    /\ network = {}
    /\ model = [r \in RunIds |->
          [CommunicationModel(Edges, scenario, Unseeded, PopulationDraws)
              EXCEPT !.pc = "off"]]
    /\ np_random = NpInitial
    /\ mesa_random = << >>
    /\ app = [r \in RunIds |-> NoRun]
    /\ call \in DirectCalls
    /\ executor = ThreadPoolExecutor(0)

SpecNet == InitNet /\ [][NextNet]_vars

(***************************************************************************)
(* SpecStep: a later step of a run.  The run has been through History      *)
(* steps in which every draw came out above its probability, except that   *)
(* agent n was exposed to sns, with effect, in each of its last hits[n]     *)
(* steps.                                                                  *)
(***************************************************************************)
History == 6

StepScenario ==
    ScenarioRequest(SnsOnly, DefaultWom, DefaultInfluencers, History + 1, DefaultSeed)

\* the scenarios of SpecStep: the default word-of-mouth, and no decay
StepScenarios ==
    { StepScenario, [StepScenario EXCEPT !.wom = WordOfMouthConfig(8, 0)] }

\* _process_word_of_mouth over the neighbours nbrs, every draw above its
\* probability
RECURSIVE PastWordOfMouth(_, _, _, _)
PastWordOfMouth(a, agents, nbrs, wom_config) ==
    IF nbrs = << >> THEN a
    ELSE LET neighbor == agents[Head(nbrs)]
         IN  PastWordOfMouth(process_word_of_mouth(a, neighbor, neighbor.state,
                                                   wom_config, "hi", "hi"),
                             agents, Tail(nbrs), wom_config)

\* CustomerAgent.step of agent id, with the sns exposure and its effect
\* succeeding when hit
PastActivation(agents, id, scn, graph, hit) ==
    LET days   == [agents[id] EXCEPT !.days_in_state = @ + 1]
        traits == update_time_varying_attributes(days)
        sns    == process_media_exposure(traits, "sns", scn.media_mix,
                                         IF hit THEN "lo" ELSE "hi", "lo")
        video  == process_media_exposure(sns, "video", scn.media_mix, "hi", "hi")
        search == process_media_exposure(video, "search", scn.media_mix, "hi", "hi")
        wom    == PastWordOfMouth(search, agents, neighbors(graph, id), scn.wom)
        forget == process_forgetting(wom, scn.wom, "hi")
    IN  [agents EXCEPT ![id] = update_state(forget, "hi")]

\* schedule.step(): the agents activated in the given order
RECURSIVE PastSchedule(_, _, _, _, _)
PastSchedule(agents, order, scn, graph, hit) ==
    IF order = << >> THEN agents
    ELSE PastSchedule(PastActivation(agents, Head(order), scn, graph, hit[Head(order)]),
                      Tail(order), scn, graph, hit)

\* the agents after t steps
RECURSIVE PopulationAt(_, _, _, _)
PopulationAt(t, scn, graph, hits) ==
    IF t = 0 THEN [n \in Nodes |-> CustomerAgent(PopulationDraws[n], scn.influencers)]
    ELSE PastSchedule(PopulationAt(t - 1, scn, graph, hits), SortedSeq(Nodes),
                      scn, graph, [n \in Nodes |-> t > History - hits[n]])

\* the model after History steps, between two calls of step()
ModelAt(scn, graph, hits) ==
    LET m == CommunicationModel(graph, scn, rep_seed(scn, 0), PopulationDraws)
    IN  [m EXCEPT
           !.agents        = PopulationAt(History, scn, graph, hits),
           !.current_step  = History,
           !.datacollector = [t \in 1 .. (History + 1) |->
                                 collect(t - 1, PopulationAt(t - 1, scn, graph, hits))],
           !.activated     = [n \in Nodes |-> 1],
           !.substeps      = <<"days", "traits", "media", "wom", "forget", "update">>,
           !.prev_state    = [n \in Nodes |->
                                 PopulationAt(History - 1, scn, graph, hits)[n].state]]

InitStep ==
    /\ scenario \in StepScenarios
    /\ network \in Topologies
    /\ \E hits \in [Nodes -> 0 .. History] :
          LET m == ModelAt(scenario, network, hits)
          IN  model = [r \in RunIds |-> IF r = 1 THEN m ELSE [m EXCEPT !.pc = "off"]]
    /\ np_random = NpInitial
    /\ mesa_random = << >>
    /\ app = [r \in RunIds |-> NoRun]
    /\ call = NoCall
    /\ executor = ThreadPoolExecutor(0)

SpecStep == InitStep /\ [][Next]_vars

(***************************************************************************)
(* Properties                                                              *)
(***************************************************************************)
LiveRuns == { r \in RunIds : model[r].pc # "off" }

StateOf(r, n) == model[r].agents[n].state

LastSnapshot(m) == m.datacollector[Len(m.datacollector)]

Degree(n) == Cardinality({ e \in network : n \in e })

\* C1: in every reachable state every agent's funnel_state is one of the seven
\* states UNAWARE(0) .. ADOPTED(6)
C1_FunnelStateInRange ==
    \A r \in LiveRuns : \A n \in Nodes :
        StateOf(r, n) >= 0 /\ StateOf(r, n) <= 6

\* C1 witness: a successful forgetting draw has just hit an agent at UNAWARE
\* while another agent stands at ADOPTED
C1_Witness ==
    \E r \in LiveRuns : \E n, k \in Nodes :
        /\ model[r].pc = "update"
        /\ Current(model[r]) = n
        /\ model[r].last_draws = <<"lo">>
        /\ scenario.wom.decay > 0
        /\ StateOf(r, n) = UNAWARE
        /\ model[r].prev_state[n] = UNAWARE
        /\ StateOf(r, k) = ADOPTED

\* C2: every single change of an agent's funnel_state moves it by exactly one
\* level, up or down
C2_SingleLevelChange ==
    [][\A r \in RunIds : \A n \in Nodes :
          model'[r].agents[n].state - model[r].agents[n].state \in {-1, 0, 1}]_vars

\* C2 witness: an agent that advanced earlier has just regressed
C2_Witness ==
    \E r \in LiveRuns : \E n \in Nodes :
        /\ model[r].pc = "update"
        /\ Current(model[r]) = n
        /\ StateOf(r, n) = model[r].prev_state[n] - 1

\* C3 as claimed: at the end of a step an agent's funnel_state differs from
\* its funnel_state at the end of the previous step by at most one level
C3_NoSkipBetweenSteps ==
    \A r \in LiveRuns : \A n \in Nodes :
        model[r].pc = "idle" =>
            Abs(StateOf(r, n) - model[r].prev_state[n]) <= 1

\* C3 as amended: over one step an agent's funnel_state falls by at most one
\* level and rises by at most one level per media channel, one per neighbour
\* and one for natural progression
C3_StepChangeBounded ==
    \A r \in LiveRuns : \A n \in Nodes :
        model[r].pc = "idle" =>
            /\ StateOf(r, n) >= model[r].prev_state[n] - 1
            /\ StateOf(r, n) <= model[r].prev_state[n] + 3 + Degree(n) + 1

\* C3 witness: a step has ended with an agent three levels above where it
\* began the step
C3_Witness ==
    \E r \in LiveRuns : \E n \in Nodes :
        /\ model[r].pc = "idle"
        /\ StateOf(r, n) >= model[r].prev_state[n] + 3

\* C4: an agent's funnel_state decreases only in the forgetting sub-step
C4_RegressOnlyInForgetting ==
    [][\A r \in RunIds : \A n \in Nodes :
          model'[r].agents[n].state < model[r].agents[n].state
              => model[r].pc = "forget"]_vars

\* C4 witness: the forgetting sub-step has just lowered an agent that natural
\* progression could then raise
C4_Witness ==
    \E r \in LiveRuns : \E n \in Nodes :
        /\ model[r].pc = "update"
        /\ Current(model[r]) = n
        /\ model[r].last_draws = <<"lo">>
        /\ StateOf(r, n) < model[r].prev_state[n]
        /\ StateOf(r, n) \in {AWARE, INTERESTED}

AllAlphasZero(mm) == mm.sns.alpha = 0 /\ mm.video.alpha = 0 /\ mm.search.alpha = 0

\* C5: with all three alphas 0 and p_generate 0 every agent is UNAWARE
\* throughout the run and every KPI count of every snapshot is 0
C5_SilentStaysUnaware ==
    (AllAlphasZero(scenario.media_mix) /\ scenario.wom.p_generate = 0) =>
        \A r \in LiveRuns :
            /\ \A n \in Nodes : StateOf(r, n) = UNAWARE
            /\ \A i \in 1 .. Len(model[r].datacollector) :
                 \A k \in {"awareness", "interest", "knowledge", "liking", "intent"} :
                    model[r].datacollector[i][k] = 0

\* C5 witness: such a run has ended, on a connected network, with every agent
\* exposed to media at least once
C5_Witness ==
    \E r \in LiveRuns :
        /\ AllAlphasZero(scenario.media_mix)
        /\ scenario.wom.p_generate = 0
        /\ network # {}
        /\ model[r].pc = "idle"
        /\ model[r].current_step = scenario.steps
        /\ \A n \in Nodes : model[r].agents[n].media_exposures > 0

StepOrder == <<"days", "traits", "media", "wom", "forget", "update">>

ActivationDone(m) ==
    \/ m.pc = "collect"
    \/ m.pc = "days" /\ \E n \in Nodes : m.activated[n] > 0
    \/ m.pc = "idle" /\ m.current_step > 0

\* C6: in every activation the six sub-steps run once each, in the order
\* days, traits, media, word-of-mouth, forgetting, natural progression
C6_SubStepsInOrder ==
    \A r \in LiveRuns :
        /\ \E k \in 0 .. 6 : model[r].substeps = SubSeq(StepOrder, 1, k)
        /\ ActivationDone(model[r]) => model[r].substeps = StepOrder

\* C6 witness: a step has ended in which one agent went through all six
\* sub-steps at UNAWARE and another reached ADOPTED
C6_Witness ==
    \E r \in LiveRuns : \E n, k \in Nodes :
        /\ model[r].pc = "collect"
        /\ model[r].substeps = StepOrder
        /\ StateOf(r, n) = UNAWARE
        /\ model[r].prev_state[n] = UNAWARE
        /\ StateOf(r, k) = ADOPTED

InAgentStep(m) == m.pc \in {"days", "traits", "media", "wom", "forget", "update"}

QueueSet(m) == { m.queue[i] : i \in 1 .. Len(m.queue) }

\* C7: in every model step each agent is activated exactly once, no agent is
\* activated again before the step's snapshot, and the snapshot of step t is
\* taken only after all agents of step t have been activated
C7_OneActivationPerStep ==
    \A r \in LiveRuns :
        LET m == model[r]
        IN  /\ \A n \in Nodes : m.activated[n] <= 1
            /\ Len(m.datacollector) =
                   IF m.pc = "idle" THEN m.current_step + 1 ELSE m.current_step
            /\ LastSnapshot(m)["Day"] = Len(m.datacollector) - 1
            /\ (m.pc \in {"collect", "idle"} /\ m.current_step > 0)
                   => \A n \in Nodes : m.activated[n] = 1
            /\ InAgentStep(m)
                   => \A n \in Nodes : (n \in QueueSet(m)) <=> (m.activated[n] = 0)

\* C7 witness: the last step's snapshot has been taken
C7_Witness ==
    \E r \in LiveRuns :
        /\ model[r].pc = "idle"
        /\ model[r].current_step = scenario.steps
        /\ model[r].current_step >= 2
        /\ Len(model[r].datacollector) = scenario.steps + 1
        /\ \A n \in Nodes : model[r].activated[n] = 1

\* C8: the word-of-mouth sub-step reads the funnel_state its neighbour has
\* now, and generates word-of-mouth only from a neighbour now at LIKING or above
C8_WomReadsCurrentState ==
    \A r \in LiveRuns :
        LET w == model[r].wom_read
        IN  w # NoRead =>
              /\ w.seen = StateOf(r, w.neighbor)
              /\ w.generated => StateOf(r, w.neighbor) >= LIKING

\* C8 witness: B has received word-of-mouth from a neighbour A that was below
\* LIKING when the step began and was activated before B in this step
C8_Witness ==
    \E r \in LiveRuns :
        LET w == model[r].wom_read
        IN  /\ w # NoRead
            /\ w.generated
            /\ model[r].prev_state[w.neighbor] < LIKING
            /\ model[r].activated[w.neighbor] = 1
            /\ model[r].activated[w.reader] = 0

\* the threshold state of each KPI, as the specification lists them
KpiThreshold(k) ==
    CASE k = "awareness" -> 1
      [] k = "interest"  -> 2
      [] k = "knowledge" -> 3
      [] k = "liking"    -> 4
      [] k = "intent"    -> 5

\* C9: every snapshot records, for each of the five KPIs, the number of agents
\* whose funnel_state is at or above that KPI's threshold state
C9_SnapshotCounts ==
    \A r \in LiveRuns :
        model[r].pc = "idle" =>
            \A k \in {"awareness", "interest", "knowledge", "liking", "intent"} :
                LastSnapshot(model[r])[k] =
                    Cardinality({ n \in Nodes : StateOf(r, n) >= KpiThreshold(k) })

\* C9 witness: a snapshot with both agents aware and one of them at INTENT
C9_Witness ==
    \E r \in LiveRuns :
        /\ model[r].pc = "idle"
        /\ LastSnapshot(model[r])["awareness"] >= 2
        /\ LastSnapshot(model[r])["intent"] = 1

\* C10: two runs of the same scenario with the same seed record the same KPI
\* counts at every step
C10_SameSeedSameSeries ==
    \A i \in 1 .. Min(Len(model[1].datacollector), Len(model[2].datacollector)) :
        model[1].datacollector[i] = model[2].datacollector[i]

\* a repetition of run r is under way: its model.run was handed to the
\* executor and run_simulation has not resumed
InProgress(r) == app[r].pc = "await"

\* C11: while a repetition runs, numpy's generator is in the state the
\* repetition's own calls leave it in: seeded with the repetition's seed and
\* advanced by that repetition's calls only, whatever another run does at the
\* same time
C11_PrivateStream ==
    \A r \in RunIds :
        (InProgress(r) /\ model[r].seed.seeded) =>
            /\ np_random.seed = model[r].seed
            /\ np_random.calls = np_random.drawn[r]

\* C12: every repetition r of a run is seeded with base seed + r, whatever
\* the base seed
C12_EveryRepetitionSeeded ==
    \A r \in RunIds :
        InProgress(r) => model[r].seed = Seeded(scenario.seed + app[r].rep)

\* C13: once a run has built its network, no step of the run changes it:
\* constructing a model, activating agents and collecting metrics in any
\* repetition leave the edge set as generate_network returned it
C13_NetworkNeverMutated ==
    [][(\E r \in RunIds : app[r].built) => network' = network]_vars

\* C13 witness: in the second repetition an agent has looked up its neighbours
\* on a graph that has an edge
C13_Witness ==
    /\ app[1].built
    /\ app[1].rep = 1
    /\ model[1].pc = "forget"
    /\ network = Edges
    /\ neighbors(network, Current(model[1])) # << >>

\* the model of run r has been constructed and has not stepped
Fresh(r) == InProgress(r) /\ model[r].pc = "idle" /\ model[r].current_step = 0

\* C14: every repetition starts from a fresh population: one agent per node
\* of the network, each UNAWARE with days_in_state, media_exposures and
\* wom_received all 0
C14_FreshPopulation ==
    \A r \in RunIds :
        Fresh(r) =>
            /\ DOMAIN model[r].agents = Nodes
            /\ \A n \in Nodes :
                 LET a == model[r].agents[n]
                 IN  /\ a.state = UNAWARE
                     /\ a.days_in_state = 0
                     /\ a.media_exposures = 0
                     /\ a.wom_received = 0

\* C14 witness: the second repetition is about to start after a first one
\* that ended with an agent aware and exposed
C14_Witness ==
    /\ Fresh(1)
    /\ app[1].rep = 1
    /\ Len(app[1].all_results) = 1
    /\ LET data == app[1].all_results[1].model_data
       IN  data[Len(data)]["awareness"] >= 1

\* C15: a repetition that timed out is cancelled: once its run is marked
\* ERROR its simulation takes no further step and makes no further call on
\* the shared generator
C15_TimedOutStops ==
    [][\A r \in RunIds :
          app[r].status = "error" =>
              /\ model'[r] = model[r]
              /\ np_random'.drawn[r] = np_random.drawn[r]]_vars

\* C16: generate_network fails, and returns no graph, whenever k >= n or
\* k < 2, for each of the three kinds of network
C16_DegreeChecked ==
    (/\ call.fn = "generate_network"
     /\ call.returned
     /\ (call.args.k >= call.args.n \/ call.args.k < 2))
        => call.result.raised

SharesSumToOne(mm) == mm.sns.share + mm.video.share + mm.search.share = 100

\* C17: no run of a scenario whose three shares do not sum to 1 is ever
\* RUNNING or DONE
C17_BadSharesRejected ==
    \A r \in RunIds :
        app[r].status \in {"running", "done"} => SharesSumToOne(scenario.media_mix)

NoInfluencers(cfg) == ~cfg.enable_influencers \/ cfg.influencer_ratio = 0

\* C18: if enable_influencers is false or influencer_ratio is 0, no agent of
\* any repetition is an influencer, at any step
C18_NoInfluencersWhenDisabled ==
    NoInfluencers(scenario.influencers) =>
        \A r \in RunIds :
            app[r].built => \A n \in Nodes : ~model[r].agents[n].is_influencer

\* C18 witness: a run with influencer_ratio 0 has ended, with an agent whose
\* draw makes it an influencer at the default ratio
C18_Witness ==
    /\ scenario.influencers.enable_influencers
    /\ scenario.influencers.influencer_ratio = 0
    /\ app[1].status = "done"
    /\ \E n \in Nodes :
          determine_influencer_status(model[1].agents[n].personality,
                                      DefaultInfluencers,
                                      PopulationDraws[n].influencer_u)

\* C19: an agent that has never been exposed to media has no recency boost:
\* after every trait recomputation its current_receptivity is its base
\* receptivity
C19_NeverExposedNoBoost ==
    \A r \in LiveRuns : \A n \in Nodes :
        LET a == model[r].agents[n]
        IN  a.last_exposure = NeverExposed => a.current_receptivity = a.receptivity

\* C20: last_exposure counts the steps since the last media exposure: when an
\* agent enters the media sub-step of a step, an exposure it had in an earlier
\* step is at least one step old
C20_LastExposureCounts ==
    \A r \in LiveRuns :
        LET m == model[r]
        IN  (m.pc = "media" /\ m.idx = 1) =>
                LET a == m.agents[Current(m)]
                IN  a.last_exposure = NeverExposed \/ a.last_exposure >= 1

\* C21: for every agent, influencers under any allowed influence_multiplier
\* included, the derived scalars interest_level, receptivity and influence
\* all lie in [0,1] (0..100 hundredths)
C21_DerivedScalarsInUnitRange ==
    \A r \in LiveRuns : \A n \in Nodes :
        LET a == model[r].agents[n]
        IN  /\ a.interest_level \in 0 .. 100
            /\ a.receptivity \in 0 .. 100
            /\ a.influence \in 0 .. 100

\* the ids of the nodes a preview lists
PreviewIds(result) == { result.nodes[i] : i \in 1 .. Len(result.nodes) }

\* C22: network_to_preview returns at most max_nodes nodes, none of them
\* twice, and only edges with both endpoints among the returned nodes; of a
\* graph with at most max_nodes nodes it returns every node and every edge
C22_PreviewCapped ==
    (call.fn = "network_to_preview" /\ call.returned) =>
        LET graph     == call.args.graph
            max_nodes == call.args.max_nodes
            nodes     == call.result.nodes
            edges     == call.result.edges
        IN  /\ Len(nodes) <= max_nodes
            /\ \A i, j \in 1 .. Len(nodes) : i # j => nodes[i] # nodes[j]
            /\ \A e \in edges : e \subseteq PreviewIds(call.result)
            /\ Cardinality(graph.nodes) <= max_nodes =>
                  /\ PreviewIds(call.result) = graph.nodes
                  /\ edges = graph.edges

\* C22 witness: a preview of a graph with more nodes than the cap kept one
\* of the graph's edges and dropped another
C22_Witness ==
    /\ call.fn = "network_to_preview"
    /\ call.returned
    /\ Cardinality(call.args.graph.nodes) > call.args.max_nodes
    /\ Len(call.result.nodes) = call.args.max_nodes
    /\ call.result.edges # {}
    /\ call.result.edges # call.args.graph.edges

\* C23: two calls of network_to_preview with the same graph and the same
\* max_nodes return the same node set and the same edge set, whatever drew
\* random numbers in between
C23_PreviewDeterministic ==
    (/\ call.fn = "network_to_preview"
     /\ call.returned
     /\ call.first.made) =>
        /\ PreviewIds(call.result) = PreviewIds(call.first.result)
        /\ call.result.edges = call.first.result.edges

\* network.nodes() of a generated graph
network_nodes(result) == 0 .. (result.nodes - 1)

C25_SameArgumentsSameGraph ==
    (/\ call.fn = "generate_network"
     /\ call.returned
     /\ call.first.made) =>
        /\ call.result.raised = call.first.result.raised
        /\ call.result.nodes = call.first.result.nodes
        /\ call.result.edges = call.first.result.edges

\* C25 witness: a random graph (Erdos-Renyi with 0 < p < 1) has been
\* generated twice, the global generator being in different states before
\* the two calls
C25_Witness ==
    /\ call.fn = "generate_network"
    /\ call.returned
    /\ call.first.made
    /\ call.first.before # call.before
    /\ call.args.network_type = "er"
    /\ call.args.k > 0
    /\ call.args.k < call.args.n - 1
    /\ ~call.result.raised
    /\ call.result.edges # {}

\* the results run() has returned in run r
ResultsOf(r) == { app[r].all_results[i] : i \in 1 .. Len(app[r].all_results) }

\* the count a snapshot holds for a KPI: the agents at or above its level
SnapshotCount(res, t, kpi) == res.model_data[t][kpi]

\* C26: the result of run() lists (day, metric, value) points in
\* non-decreasing day order, exactly one point per KPI per snapshot, and for
\* every KPI summary.start is the first snapshot's count, summary.end the
\* last snapshot's count and summary.delta = end - start
C26_SeriesAndSummary ==
    \A r \in RunIds : \A res \in ResultsOf(r) :
        LET points == res.series
            last   == Len(res.model_data)
        IN  /\ \A i, j \in 1 .. Len(points) : i <= j => points[i].day <= points[j].day
            /\ \A t \in 1 .. last : \A kpi \in KpiNames :
                  /\ Cardinality({ i \in 1 .. Len(points) :
                                     /\ points[i].day = res.model_data[t]["Day"]
                                     /\ points[i].metric = kpi }) = 1
                  /\ \E i \in 1 .. Len(points) :
                        /\ points[i].day = res.model_data[t]["Day"]
                        /\ points[i].metric = kpi
                        /\ points[i].value = SnapshotCount(res, t, kpi)
            /\ Len(points) = last * Cardinality(KpiNames)
            /\ \A kpi \in KpiNames :
                  /\ res.summary[kpi].start = SnapshotCount(res, 1, kpi)
                  /\ res.summary[kpi].end = SnapshotCount(res, last, kpi)
                  /\ res.summary[kpi].delta
                        = res.summary[kpi].end - res.summary[kpi].start

\* C26 witness: run() has returned a result with more than one snapshot, in
\* which awareness ended above where it started
C26_Witness ==
    \E res \in ResultsOf(1) :
        /\ Len(res.model_data) > 1
        /\ res.summary["awareness"].delta > 0
        /\ res.summary["intent"].delta = 0

\* C27: a run executes all reps repetitions and reports exactly the first
\* repetition's series and summary, the first repetition being the one of
\* index 0 run with the base seed, whatever the later repetitions produced;
\* an empty list of repetition results aggregates to an empty result
C27_FirstRepetitionReported ==
    /\ aggregate_repetitions(<< >>) = << >>
    /\ \A r \in RunIds :
          /\ (InProgress(r) /\ app[r].rep = 0) =>
                model[r].seed = Seeded(scenario.seed)
          /\ app[r].status = "done" =>
                /\ Len(app[r].all_results) = scenario.reps
                /\ app[r].results.series = app[r].all_results[1].series
                /\ app[r].results.summary = app[r].all_results[1].summary

\* np.random.random() < 0.01 * (1 + days_in_state * 0.1) * decay for the draw u
ForgettingDrawSucceeds(a, u) ==
    IF u = "lo" THEN (10 + a.days_in_state) * scenario.wom.decay > 0
    ELSE (10 + a.days_in_state) * scenario.wom.decay >= 100000

\* C28: a successful forgetting draw on an agent above UNAWARE lowers its
\* state by exactly one level and resets days_in_state to 0; on an UNAWARE
\* agent, or on a failed draw, the forgetting sub-step leaves state and
\* days_in_state as they were
C28_ForgettingEffect ==
    [][\A r \in RunIds :
          (model[r].pc = "forget" /\ model'[r].pc # "forget") =>
              LET id == Current(model[r])
                  a  == model[r].agents[id]
                  b  == model'[r].agents[id]
                  u  == model'[r].last_draws[1]
              IN  IF ForgettingDrawSucceeds(a, u) /\ a.state > UNAWARE
                  THEN b.state = a.state - 1 /\ b.days_in_state = 0
                  ELSE b.state = a.state /\ b.days_in_state = a.days_in_state]_vars

\* C28 witness: the forgetting sub-step has just taken an agent one level
\* below the state it began the step in, and reset its days_in_state
C28_Witness ==
    \E r \in LiveRuns :
        LET m == model[r]
            a == m.agents[Current(m)]
        IN  /\ m.pc = "update"
            /\ m.last_draws = <<"lo">>
            /\ scenario.wom.decay > 0
            /\ a.state >= AWARE
            /\ a.state = m.prev_state[Current(m)] - 1
            /\ a.days_in_state = 0

\* C29: the natural-progression sub-step can advance an agent only if, after
\* the forgetting sub-step of the same activation, its state is AWARE or
\* INTERESTED; from any other state it changes nothing
C29_ProgressOnlyFromAwareOrInterested ==
    [][\A r \in RunIds :
          (model[r].pc = "update" /\ model'[r].pc # "update") =>
              LET id == Current(model[r])
                  a  == model[r].agents[id]
                  b  == model'[r].agents[id]
              IN  /\ model[r].substeps[Len(model[r].substeps)] = "forget"
                  /\ b.state # a.state =>
                        /\ a.state \in {AWARE, INTERESTED}
                        /\ b.state = a.state + 1
                  /\ a.state \notin {AWARE, INTERESTED} =>
                        /\ b.state = a.state
                        /\ b.days_in_state = a.days_in_state]_vars

\* C29 witness: the last sub-step of a step was a natural progression that
\* drew and succeeded, and there is an agent that has just entered
\* INTERESTED or KNOWLEDGEABLE
C29_Witness ==
    \E r \in LiveRuns :
        /\ model[r].pc = "collect"
        /\ model[r].last_draws = <<"lo">>
        /\ \E n \in Nodes :
              /\ StateOf(r, n) \in {INTERESTED, KNOWLEDGEABLE}
              /\ model[r].agents[n].days_in_state = 0

\* C30: for each channel a successful exposure draw increments
\* media_exposures by one and sets last_exposure to 0 whether or not the
\* effect draw succeeds; a successful effect draw advances the state by one
\* level unless the agent is ADOPTED, in which case state and days_in_state
\* stay as they were; a channel with share 0 never exposes
C30_MediaExposureEffect ==
    [][\A r \in RunIds :
          (model[r].pc = "media" /\ model'[r] # model[r]) =>
              LET id       == Current(model[r])
                  a        == model[r].agents[id]
                  b        == model'[r].agents[id]
                  channel  == Channels[model[r].idx]
                  draws    == model'[r].last_draws
                  exposure == RandomLess(draws[1],
                                         ExposureProb(a, channel, scenario.media_mix))
                  effect   == /\ exposure
                              /\ RandomLess(draws[2],
                                            MediaEffectProb(a, channel, scenario.media_mix))
              IN  /\ exposure =>
                        /\ b.media_exposures = a.media_exposures + 1
                        /\ b.last_exposure = 0
                  /\ ~exposure =>
                        /\ b.media_exposures = a.media_exposures
                        /\ b.last_exposure = a.last_exposure
                  /\ (effect /\ a.state < ADOPTED) => b.state = a.state + 1
                  /\ (effect /\ a.state = ADOPTED) =>
                        /\ b.state = a.state
                        /\ b.days_in_state = a.days_in_state
                  /\ scenario.media_mix[channel].share = 0 => ~exposure]_vars

\* C30 witness: an agent that was ADOPTED when the step began has been
\* exposed to sns, and the effect draw succeeded
C30_Witness ==
    \E r \in LiveRuns :
        LET m == model[r]
            a == m.agents[Current(m)]
        IN  /\ m.pc = "media"
            /\ m.idx = 2
            /\ m.last_draws = <<"lo", "lo">>
            /\ m.prev_state[Current(m)] = ADOPTED
            /\ a.state = ADOPTED
            /\ a.days_in_state >= 1
            /\ a.last_exposure = 0

\* the graph neighbours of agent id that are at LIKING or above in run r
WomSources(r, id) ==
    { n \in Nodes : {id, n} \in network /\ StateOf(r, n) >= LIKING }

\* C31: word-of-mouth reaches an agent only from a graph neighbour whose
\* current state is LIKING or above: wom_received is incremented, and the
\* word-of-mouth sub-step changes a state, only in the presence of such a
\* neighbour; while no agent is at LIKING or above no wom_received changes
\* and word-of-mouth changes no state
C31_WomOnlyFromLikingNeighbour ==
    [][\A r \in RunIds :
          /\ \A n \in Nodes :
                model'[r].agents[n].wom_received # model[r].agents[n].wom_received
                    => /\ model[r].pc = "wom"
                       /\ n = Current(model[r])
                       /\ model'[r].agents[n].wom_received
                              = model[r].agents[n].wom_received + 1
                       /\ WomSources(r, n) # {}
          /\ model[r].pc = "wom" =>
                /\ \A n \in Nodes :
                      StateOf(r, n) # model'[r].agents[n].state
                          => n = Current(model[r]) /\ WomSources(r, n) # {}
                /\ (\A n \in Nodes : StateOf(r, n) < LIKING) =>
                      \A n \in Nodes :
                          /\ model'[r].agents[n].wom_received
                                 = model[r].agents[n].wom_received
                          /\ model'[r].agents[n].state = StateOf(r, n)]_vars

\* C31 witness: an agent has received word-of-mouth from a neighbour at
\* LIKING or above and has advanced by it
C31_Witness ==
    \E r \in LiveRuns :
        LET m == model[r]
            w == m.wom_read
        IN  /\ m.pc = "wom"
            /\ w # NoRead
            /\ w.generated
            /\ m.last_draws = <<"lo", "lo">>
            /\ w.neighbor \in WomSources(r, w.reader)
            /\ m.agents[w.reader].wom_received = 1
            /\ m.agents[w.reader].days_in_state = 0

\* current_openness as media_exposures gives it:
\* openness * max(0.5, 1 - media_exposures * 0.001)
OpennessFrom(a, media_exposures) ==
    a.personality.openness * Max(500, 1000 - media_exposures)

\* current_receptivity as last_exposure gives it:
\* min(1.0, receptivity + (0.1 * (5 - last_exposure) / 5 if last_exposure < 5 else 0))
ReceptivityFrom(a, last_exposure) ==
    Min(100, a.receptivity + (IF last_exposure < 5 THEN 2 * (5 - last_exposure) ELSE 0))

\* C32: current_openness and current_receptivity are recomputed once, at the
\* start of an activation, from the media_exposures and last_exposure the
\* previous steps left; the media, word-of-mouth and later sub-steps of the
\* activation leave them as they are, so an exposure in the current step
\* changes them only from the next step on
C32_TraitsFixedDuringActivation ==
    [][\A r \in RunIds :
          /\ model[r].pc = "traits" =>
                LET a == model[r].agents[Current(model[r])]
                    b == model'[r].agents[Current(model[r])]
                IN  /\ b.current_openness = OpennessFrom(a, a.media_exposures)
                    /\ b.current_receptivity = ReceptivityFrom(a, a.last_exposure)
                    /\ model[r].substeps = <<"days">>
          /\ model[r].pc # "traits" =>
                \A n \in Nodes :
                    /\ model'[r].agents[n].current_openness
                           = model[r].agents[n].current_openness
                    /\ model'[r].agents[n].current_receptivity
                           = model[r].agents[n].current_receptivity]_vars

\* C32 witness: in the second step an agent exposed once in the first step
\* has been exposed again, and its current_openness counts the first
\* exposure and not the second
C32_Witness ==
    \E r \in LiveRuns :
        LET m == model[r]
            a == m.agents[Current(m)]
        IN  /\ m.current_step = 2
            /\ m.pc = "wom"
            /\ a.media_exposures = 2
            /\ a.current_openness = OpennessFrom(a, 1)
            /\ a.current_openness # OpennessFrom(a, a.media_exposures)

\* C33: at every snapshot the KPI counts are nested and bounded:
\* n >= awareness >= interest >= knowledge >= liking >= intent >= 0, n being
\* the number of agents
C33_KpiCountsNested ==
    \A r \in LiveRuns :
        \A t \in 1 .. Len(model[r].datacollector) :
            LET row == model[r].datacollector[t]
            IN  /\ Cardinality(DOMAIN model[r].agents) >= row["awareness"]
                /\ row["awareness"] >= row["interest"]
                /\ row["interest"] >= row["knowledge"]
                /\ row["knowledge"] >= row["liking"]
                /\ row["liking"] >= row["intent"]
                /\ row["intent"] >= 0

\* C33 witness: the snapshot of the step just taken counts every agent as
\* aware, fewer at LIKING, and none at INTENT
C33_Witness ==
    \E r \in LiveRuns :
        LET m   == model[r]
            row == m.datacollector[Len(m.datacollector)]
        IN  /\ m.pc = "idle"
            /\ m.current_step = m.steps
            /\ row["Day"] = m.steps
            /\ row["awareness"] = Cardinality(DOMAIN m.agents)
            /\ row["liking"] > 0
            /\ row["liking"] < row["awareness"]
            /\ row["intent"] = 0

\* the KPI counts of every snapshot are at least those of the one before
CountsNonDecreasing(datacollector) ==
    \A t \in 2 .. Len(datacollector) : \A kpi \in KpiNames :
        datacollector[t][kpi] >= datacollector[t - 1][kpi]

\* C34: with decay 0 the forgetting probability is 0: no agent's state ever
\* decreases, an ADOPTED agent stays ADOPTED, and every KPI count is
\* non-decreasing from one snapshot to the next
C34_NoDecayNoRegression ==
    [][scenario.wom.decay = 0 =>
          \A r \in LiveRuns :
              /\ \A n \in Nodes :
                    /\ model'[r].agents[n].state >= StateOf(r, n)
                    /\ StateOf(r, n) = ADOPTED => model'[r].agents[n].state = ADOPTED
              /\ model[r].pc = "forget" =>
                    model'[r].agents[Current(model[r])] = model[r].agents[Current(model[r])]
              /\ CountsNonDecreasing(model'[r].datacollector)]_vars

\* C34 witness: with decay 0 the forgetting draw of an ADOPTED agent came out
\* as low as it can, and the agent is still ADOPTED
C34_Witness ==
    \E r \in LiveRuns :
        LET m == model[r]
        IN  /\ scenario.wom.decay = 0
            /\ m.pc = "update"
            /\ m.last_draws = <<"lo">>
            /\ m.substeps[Len(m.substeps)] = "forget"
            /\ m.agents[Current(m)].state = ADOPTED
            /\ m.datacollector[Len(m.datacollector)]["intent"] > 0

\* C35: days_in_state is incremented by one at the start of every
\* activation and reset to 0 exactly when the state actually changes; hence
\* at the end of any step 0 <= days_in_state <= current step number, and an
\* agent whose state never changed (here: one that no exposure and no
\* word-of-mouth ever reached) has days_in_state equal to the step number
C35_DaysInState ==
    [][\A r \in LiveRuns : \A n \in Nodes :
          LET a == model[r].agents[n]
              b == model'[r].agents[n]
          IN  /\ IF model[r].pc = "days" /\ n = Current(model[r])
                 THEN b.days_in_state = a.days_in_state + 1 /\ b.state = a.state
                 ELSE IF b.state # a.state
                      THEN b.days_in_state = 0
                      ELSE b.days_in_state = a.days_in_state
              /\ model'[r].pc = "idle" =>
                    /\ b.days_in_state >= 0
                    /\ b.days_in_state <= model'[r].current_step
                    /\ (b.media_exposures = 0 /\ b.wom_received = 0) =>
                          b.days_in_state = model'[r].current_step]_vars

\* C35 witness: at the end of the second step one agent has never been
\* reached and another has just changed its state
C35_Witness ==
    \E r \in LiveRuns :
        LET m == model[r]
        IN  /\ m.pc = "idle"
            /\ m.current_step = 2
            /\ \E n \in Nodes :
                  /\ m.agents[n].media_exposures = 0
                  /\ m.agents[n].wom_received = 0
                  /\ m.agents[n].days_in_state = 2
            /\ \E n \in Nodes :
                  /\ m.agents[n].state # m.prev_state[n]
                  /\ m.agents[n].days_in_state = 0

\* C36: a run of `steps` steps produces exactly steps + 1 snapshots, with the
\* days 0, 1, ..., steps in order; the day-0 snapshot is taken at
\* construction, before any agent acts, and counts 0 for every KPI, so that
\* summary.start is 0 and summary.delta equals summary.end for every KPI
C36_SnapshotPerStep ==
    \A r \in LiveRuns :
        LET m == model[r]
        IN  /\ m.pc = "idle" => Len(m.datacollector) = m.current_step + 1
            /\ \A t \in 1 .. Len(m.datacollector) : m.datacollector[t]["Day"] = t - 1
            /\ Len(m.datacollector) >= 1
            /\ \A kpi \in KpiNames : m.datacollector[1][kpi] = 0
            /\ Finished(m) =>
                  LET res == run_results(m)
                  IN  /\ Len(res.model_data) = m.steps + 1
                      /\ \A kpi \in KpiNames :
                            /\ res.summary[kpi].start = 0
                            /\ res.summary[kpi].delta = res.summary[kpi].end

\* C36 witness: a run of two steps has ended with three snapshots, the last
\* of which counts an agent that the one before did not
C36_Witness ==
    \E r \in LiveRuns :
        LET m == model[r]
        IN  /\ Finished(m)
            /\ m.steps = 2
            /\ Len(m.datacollector) = 3
            /\ m.datacollector[3]["awareness"] > m.datacollector[2]["awareness"]
            /\ run_results(m).summary["awareness"].delta > 0

\* one write of the run's row after another: QUEUED -> RUNNING -> DONE, ERROR
\* from QUEUED or RUNNING, nothing after DONE or ERROR, and progress that does
\* not decrease from one RUNNING row to the next
StatusMove(p, q) ==
    /\ p.status = "queued" => q.status \in {"running", "error"}
    /\ p.status = "running" => q.status \in {"running", "done", "error"}
    /\ p.status \notin {"done", "error"}
    /\ (p.status = "running" /\ q.status = "running") => p.progress <= q.progress

\* C37: the stored status of a run only moves QUEUED -> RUNNING -> DONE, or to
\* ERROR from QUEUED or RUNNING; no write follows DONE or ERROR; while the
\* status is RUNNING the progress never decreases and stays within [0, 1]
C37_StatusLifecycle ==
    \A r \in RunIds :
        LET w == app[r].writes
        IN  /\ app[r].status # "none" =>
                  /\ Len(w) >= 1
                  /\ w[1].status = "queued"
                  /\ w[Len(w)] = Row(app[r])
            /\ \A i \in 1..Len(w) :
                  /\ w[i].status \in RunStatus
                  /\ w[i].progress \in 0..100
                  /\ i < Len(w) => StatusMove(w[i], w[i + 1])

\* a run of two repetitions is done after reporting 0.2, 0.55, 0.95 and 1.0
C37_Witness ==
    \E r \in RunIds :
        LET w == app[r].writes
        IN  /\ app[r].status = "done"
            /\ Len(app[r].all_results) = 2
            /\ \E i, j, k \in 1..Len(w) :
                  /\ i < j /\ j < k
                  /\ w[i] = [status |-> "running", progress |-> 20, results_path |-> FALSE]
                  /\ w[j] = [status |-> "running", progress |-> 55, results_path |-> FALSE]
                  /\ w[k] = [status |-> "running", progress |-> 95, results_path |-> FALSE]

\* C38: whenever a run's status is DONE its results were saved before, so
\* get_results returns them; a run that ended in ERROR because a repetition
\* timed out has no saved results and reports progress 0
C38_DoneHasResults ==
    \A r \in RunIds :
        LET a == app[r]
            w == a.writes
        IN  /\ \A i \in 1..Len(w) :
                  w[i].status = "done" =>
                      /\ w[i].results_path
                      /\ i > 1
                      /\ w[i - 1].results_path
                      /\ w[i - 1].status = "running"
            /\ a.status = "done" =>
                  /\ get_results(a) # << >>
                  /\ get_results(a) = json_dump(aggregate_repetitions(a.all_results))
                  /\ Len(get_results(a).series) > 0
            /\ a.status = "error" =>
                  /\ ~a.results_path
                  /\ get_results(a) = << >>
                  /\ a.progress = 0

\* one run is done with its results saved while the other one timed out in
\* its repetition
C38_Witness ==
    \E r, q \in RunIds :
        /\ app[r].status = "done"
        /\ get_results(app[r]).series = app[r].all_results[1].series
        /\ app[q].status = "error"
        /\ Len(app[q].all_results) = 0
        /\ app[q].writes[Len(app[q].writes) - 1].progress = 20
        /\ get_results(app[q]) = << >>

\* C39: under fair scheduling of the event loop and the worker pool every run
\* that create_run created ends in DONE or ERROR: it never stays QUEUED or
\* RUNNING forever, also when the two workers are held by other work or a
\* repetition times out
C39_RunsTerminate ==
    \A r \in RunIds :
        (app[r].status \in {"queued", "running"})
            ~> (app[r].status \in {"done", "error"})

\* the second repetition waited for a worker that other work held and timed
\* out before it ran: the run ended in ERROR
C39_Witness ==
    \E r \in RunIds :
        /\ app[r].status = "error"
        /\ Len(app[r].all_results) = 1
        /\ model[r].current_step = 0
        /\ r \notin executor.running
        /\ Busy(executor) = max_workers

====
